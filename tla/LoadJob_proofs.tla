--------------------------- MODULE LoadJob_proofs ---------------------------
(***************************************************************************)
(* Theorems about one load job, for every file, any chunk limits and any   *)
(* number of runs.  The rows of a job are known by their places in the     *)
(* order in which they are sent; the service knows chunks by their number. *)
(***************************************************************************)
EXTENDS LoadJob, Ordering_proofs

-----------------------------------------------------------------------------
(* The rows of a job                                                       *)

JobRows(c) == SortRows(StrippedRows(c), c.columns)
RawRows(c) == Flattened(c.file)
Count(c) == Len(JobRows(c))

\* The id of the n-th row that is sent, and of the i-th row of the file.
RowId(c, n) == Cell(JobRows(c)[n], "_dlt_id")
RawId(c, i) ==
  IF "_dlt_id" \in DOMAIN RawRows(c)[i] THEN Stripped(RawRows(c)[i]["_dlt_id"]) ELSE None

\* The rows of a file are a finite sequence of finite records.
LEMMA RawIsSeq ==
  ASSUME NEW c \in Cases
  PROVE  \E V : RawRows(c) \in Seq(V) /\ \A row \in V : IsFiniteSet(DOMAIN row)
<1>. DEFINE V == UNION {ToSet(line) : line \in ToSet(c.file)}
<1>1. c.file \in Seq(Seq(V)) /\ \A row \in V : IsFiniteSet(DOMAIN row)
  BY CasesAssumption
<1>. HIDE DEF V
<1>2. RawRows(c) \in Seq(V)
  BY <1>1, FlattenedIsSeq DEF RawRows
<1>. QED
  BY <1>1, <1>2

\* What is stripped of markers and unknown columns are the rows of the file,
\* under their ids.
LEMMA StrippedIsRaw ==
  ASSUME NEW c \in Cases
  PROVE  /\ Len(RawRows(c)) \in Nat /\ DOMAIN RawRows(c) = 1 .. Len(RawRows(c))
         /\ StrippedRows(c) \in Seq(ToSet(StrippedRows(c)))
         /\ Len(StrippedRows(c)) = Len(RawRows(c))
         /\ \A i \in 1 .. Len(RawRows(c)) :
              /\ Cell(StrippedRows(c)[i], "_dlt_id") = RawId(c, i)
              /\ IsFiniteSet(DOMAIN StrippedRows(c)[i])
<1>. DEFINE recs == RawRows(c)
            columns == {d.name : d \in ToSet(c.columns)} \cup {"_dlt_id", "_dlt_load_id"}
            Strip(i) == Restrict(StripPua(recs[i]), DOMAIN recs[i] \cap columns)
<1>1. PICK V : recs \in Seq(V) /\ \A row \in V : IsFiniteSet(DOMAIN row)
  BY RawIsSeq
<1>2. /\ Len(recs) \in Nat /\ DOMAIN recs = 1 .. Len(recs)
      /\ \A i \in 1 .. Len(recs) : recs[i] \in V
  BY <1>1
<1>3. StrippedRows(c) = [i \in 1 .. Len(recs) |-> Strip(i)]
  BY <1>2 DEF StrippedRows, RawRows
<1>. HIDE DEF recs
<1>4. ASSUME NEW i \in 1 .. Len(recs)
      PROVE  Cell(Strip(i), "_dlt_id") = RawId(c, i) /\ IsFiniteSet(DOMAIN Strip(i))
  <2>1. DOMAIN Strip(i) = DOMAIN recs[i] \cap columns
    BY DEF Restrict
  <2>2. IsFiniteSet(DOMAIN Strip(i))
    <3>1. IsFiniteSet(DOMAIN recs[i])
      BY <1>1, <1>2
    <3>. QED
      BY <2>1, <3>1, FS_Subset
  <2>3. Cell(Strip(i), "_dlt_id") = RawId(c, i)
    <3>1. "_dlt_id" \in DOMAIN recs[i] => Strip(i)["_dlt_id"] = Stripped(recs[i]["_dlt_id"])
      BY DEF Restrict, StripPua
    <3>2. "_dlt_id" \in columns
      OBVIOUS
    <3>. HIDE DEF Strip, columns
    <3>. QED
      BY <2>1, <3>1, <3>2 DEF Cell, RawId, recs
  <2>. QED
    BY <2>2, <2>3
<1>. HIDE DEF Strip
<1>5. \A i \in 1 .. Len(recs) : StrippedRows(c)[i] = Strip(i)
  BY <1>3
<1>6. /\ DOMAIN StrippedRows(c) = 1 .. Len(recs)
      /\ \A i \in 1 .. Len(recs) : Strip(i) \in ToSet(StrippedRows(c))
  BY <1>3 DEF ToSet
<1>7. StrippedRows(c) \in Seq(ToSet(StrippedRows(c))) /\ Len(StrippedRows(c)) = Len(recs)
  <2>. DEFINE W == ToSet(StrippedRows(c))
  <2>. HIDE DEF W
  <2>1. \A i \in 1 .. Len(recs) : Strip(i) \in W
    BY <1>6 DEF W
  <2>2. StrippedRows(c) \in Seq(W) /\ Len(StrippedRows(c)) = Len(recs)
    BY <1>2, <1>3, <2>1
  <2>. QED
    BY <2>2 DEF W
<1>. QED
  BY <1>2, <1>4, <1>5, <1>7 DEF recs

\* The hinted column is a sort key.
LEMMA HintIsKey ==
  ASSUME NEW c \in Cases, DedupSort(c.columns) # <<>>, NEW Order,
         LET rows == StrippedRows(c)
             hint == DedupSort(c.columns)[1]
             At(row) == Cell(row, hint.name)
             Before(a, b) ==
               /\ At(a) # None
               /\ \/ At(b) = None
                  \/ IF hint.sort = "asc" THEN Below(At(a), At(b)) ELSE Below(At(b), At(a))
         IN Order = {p \in ToSet(rows) \X ToSet(rows) : Before(p[1], p[2])}
  PROVE  IsSortKey(Order, StrippedRows(c))
<1>. DEFINE rows == StrippedRows(c)
            hint == DedupSort(c.columns)[1]
            At(row) == Cell(row, hint.name)
            N == 1 .. Len(rows)
            values == {Cell(row, hint.name) : row \in ToSet(rows)} \ {None}
<1>1. \A i \in N : rows[i] \in ToSet(rows)
  BY StrippedIsRaw DEF ToSet
<1>2. \A i \in N : At(rows[i]) \in values \cup {None}
  BY <1>1
<1>3. \A i, j \in N : <<rows[i], rows[j]>> \in Order <=>
        /\ At(rows[i]) # None
        /\ \/ At(rows[j]) = None
           \/ IF hint.sort = "asc" THEN Below(At(rows[i]), At(rows[j]))
              ELSE Below(At(rows[j]), At(rows[i]))
  BY <1>1
<1>4. \A x, y, z \in values :
        ~(Below(x, y) /\ Below(y, x)) /\ (Below(x, z) => Below(x, y) \/ Below(y, z))
  BY SortAssumption
<1>. HIDE DEF At, N, rows, hint, values
<1>5. ASSUME NEW i \in N, NEW j \in N, <<rows[i], rows[j]>> \in Order
      PROVE  <<rows[j], rows[i]>> \notin Order
  <2>1. CASE At(rows[j]) = None
    BY <1>3, <2>1
  <2>2. CASE At(rows[j]) # None
    <3>1. At(rows[i]) \in values /\ At(rows[j]) \in values
      BY <1>2, <1>3, <1>5, <2>2
    <3>2. At(rows[i]) # None
      BY <1>3, <1>5
    <3>. QED
      BY <1>3, <1>4, <1>5, <2>2, <3>1, <3>2
  <2>. QED
    BY <2>1, <2>2
<1>6. ASSUME NEW i \in N, NEW j \in N, NEW k \in N, <<rows[i], rows[k]>> \in Order
      PROVE  <<rows[i], rows[j]>> \in Order \/ <<rows[j], rows[k]>> \in Order
  <2>1. At(rows[i]) # None
    BY <1>3, <1>6
  <2>2. CASE At(rows[j]) = None
    BY <1>3, <2>1, <2>2
  <2>3. CASE At(rows[j]) # None /\ At(rows[k]) = None
    BY <1>3, <2>3
  <2>4. CASE At(rows[j]) # None /\ At(rows[k]) # None
    <3>1. At(rows[i]) \in values /\ At(rows[j]) \in values /\ At(rows[k]) \in values
      BY <1>2, <2>1, <2>4
    <3>2. CASE hint.sort = "asc"
      BY <1>3, <1>4, <1>6, <2>1, <2>4, <3>1, <3>2
    <3>3. CASE hint.sort # "asc"
      BY <1>3, <1>4, <1>6, <2>1, <2>4, <3>1, <3>3
    <3>. QED
      BY <3>2, <3>3
  <2>. QED
    BY <2>2, <2>3, <2>4
<1>. QED
  BY <1>5, <1>6 DEF IsSortKey, N, rows

\* Row i of the file is sent before row j.
HintAt(c, i) == Cell(StrippedRows(c)[i], DedupSort(c.columns)[1].name)
HintLess(c, i, j) ==
  /\ HintAt(c, i) # None
  /\ \/ HintAt(c, j) = None
     \/ IF DedupSort(c.columns)[1].sort = "asc" THEN Below(HintAt(c, i), HintAt(c, j))
        ELSE Below(HintAt(c, j), HintAt(c, i))
Sooner(c, i, j) ==
  IF DedupSort(c.columns) = <<>> THEN i < j
  ELSE HintLess(c, i, j) \/ (~HintLess(c, j, i) /\ i < j)

\* The n-th row that is sent is row from[n] of the file.
SentFrom(c, from) ==
  /\ from \in Bijection(1 .. Count(c), 1 .. Count(c))
  /\ \A n \in 1 .. Count(c) : JobRows(c)[n] = StrippedRows(c)[from[n]]
  /\ \A m, n \in 1 .. Count(c) : m < n => Sooner(c, from[m], from[n])

\* The job sends the rows of the file, each once, by the hinted column if
\* there is one and else as they stand.
LEMMA RowsInOrder ==
  ASSUME NEW c \in Cases
  PROVE  /\ Count(c) \in Nat /\ Count(c) = Len(RawRows(c))
         /\ JobRows(c) \in Seq(ToSet(StrippedRows(c)))
         /\ \E from : SentFrom(c, from)
<1>. DEFINE rows == StrippedRows(c)
            V == ToSet(rows)
            N == 1 .. Len(rows)
<1>1. rows \in Seq(V) /\ Len(rows) = Len(RawRows(c)) /\ Len(rows) \in Nat
  BY StrippedIsRaw
<1>2. CASE DedupSort(c.columns) = <<>>
  <2>1. JobRows(c) = rows
    BY <1>2 DEF JobRows, SortRows
  <2>. DEFINE id == [n \in N |-> n]
  <2>2. id \in Bijection(N, N) /\ \A n \in N : rows[n] = rows[id[n]]
    BY DEF Bijection, Injection, Surjection, IsInjective
  <2>3. \A m, n \in N : m < n => Sooner(c, id[m], id[n])
    BY <1>2 DEF Sooner
  <2>. HIDE DEF id
  <2>4. Count(c) = Len(rows)
    BY <2>1 DEF Count
  <2>5. SentFrom(c, id)
    BY <2>1, <2>2, <2>3, <2>4 DEF SentFrom
  <2>. QED
    BY <1>1, <2>1, <2>4, <2>5
<1>3. CASE DedupSort(c.columns) # <<>>
  <2>. DEFINE hint == DedupSort(c.columns)[1]
              At(row) == Cell(row, hint.name)
              Before(a, b) ==
                /\ At(a) # None
                /\ \/ At(b) = None
                   \/ IF hint.sort = "asc" THEN Below(At(a), At(b)) ELSE Below(At(b), At(a))
              Order == {p \in V \X V : Before(p[1], p[2])}
  <2>1. JobRows(c) = SortedBy(rows, Order)
    BY <1>3 DEF JobRows, SortRows
  <2>2. IsSortKey(Order, rows)
    BY <1>3, HintIsKey
  <2>3. \A i, j \in N : <<rows[i], rows[j]>> \in Order <=> HintLess(c, i, j)
    <3>1. \A i \in N : rows[i] \in V
      BY DEF ToSet
    <3>2. \A i, j \in N : Before(rows[i], rows[j]) <=> HintLess(c, i, j)
      BY DEF HintLess, HintAt
    <3>. HIDE DEF Before, rows, V
    <3>. QED
      BY <3>1, <3>2
  <2>. HIDE DEF Order, V, rows
  <2>4. /\ SortedBy(rows, Order) \in Seq(V) /\ Len(SortedBy(rows, Order)) = Len(rows)
        /\ \E from \in Bijection(N, N) :
             /\ \A n \in N : SortedBy(rows, Order)[n] = rows[from[n]]
             /\ \A m, n \in N : m < n =>
                  \/ <<rows[from[m]], rows[from[n]]>> \in Order
                  \/ <<rows[from[n]], rows[from[m]]>> \notin Order /\ from[m] < from[n]
    BY <1>1, <2>2, SortedByIsSorted
  <2>5. Count(c) = Len(rows)
    BY <2>1, <2>4 DEF Count
  <2>6. PICK from \in Bijection(N, N) :
          /\ \A n \in N : SortedBy(rows, Order)[n] = rows[from[n]]
          /\ \A m, n \in N : m < n =>
               \/ <<rows[from[m]], rows[from[n]]>> \in Order
               \/ <<rows[from[n]], rows[from[m]]>> \notin Order /\ from[m] < from[n]
    BY <2>4
  <2>7. \A n \in N : from[n] \in N
    <3>. HIDE DEF N
    <3>. QED
      BY <2>6, Fun_BijectionProperties
  <2>8. \A m, n \in N : m < n => Sooner(c, from[m], from[n])
    BY <1>3, <2>3, <2>6, <2>7 DEF Sooner
  <2>9. SentFrom(c, from)
    BY <2>1, <2>5, <2>6, <2>8 DEF SentFrom, rows
  <2>. QED
    BY <1>1, <2>1, <2>4, <2>5, <2>9 DEF rows, V
<1>. QED
  BY <1>2, <1>3

\* They go under the ids they have in the file.
LEMMA JobRowsAreRaw ==
  ASSUME NEW c \in Cases
  PROVE  /\ Count(c) \in Nat /\ Count(c) = Len(RawRows(c))
         /\ JobRows(c) \in Seq(ToSet(StrippedRows(c)))
         /\ \A n \in 1 .. Count(c) : IsFiniteSet(DOMAIN JobRows(c)[n])
         /\ \E from \in Bijection(1 .. Count(c), 1 .. Count(c)) :
              \A n \in 1 .. Count(c) : RowId(c, n) = RawId(c, from[n])
<1>. DEFINE N == 1 .. Count(c)
<1>1. /\ Count(c) \in Nat /\ Count(c) = Len(RawRows(c))
      /\ JobRows(c) \in Seq(ToSet(StrippedRows(c)))
  BY RowsInOrder
<1>2. PICK from : SentFrom(c, from)
  BY RowsInOrder
<1>3. from \in Bijection(N, N) /\ \A n \in N : JobRows(c)[n] = StrippedRows(c)[from[n]]
  BY <1>2 DEF SentFrom
<1>4. \A n \in N : from[n] \in N
  <2>. HIDE DEF N
  <2>. QED
    BY <1>3, Fun_BijectionProperties
<1>5. \A i \in N : Cell(StrippedRows(c)[i], "_dlt_id") = RawId(c, i)
                   /\ IsFiniteSet(DOMAIN StrippedRows(c)[i])
  BY <1>1, StrippedIsRaw
<1>6. \A n \in N : RowId(c, n) = RawId(c, from[n]) /\ IsFiniteSet(DOMAIN JobRows(c)[n])
  BY <1>3, <1>4, <1>5 DEF RowId
<1>. QED
  BY <1>1, <1>3, <1>6

-----------------------------------------------------------------------------
(* The chunk being filled, and the records of the sink                     *)

\* The fact a row becomes, by either transport.
JobFact(c, row) == BuildRecord(row, KeyFields(c.columns), HardDeleteFields(c.columns))

\* What the sink holds: records of rows that could be built, and rests of lines.
RecordOf(c, p) == [fact |-> JobFact(c, JobRows(c)[p]), row |-> p]
SendableOf(c, p) ==
  Buildable(Popped(JobRows(c)[p]), KeyFields(c.columns), HardDeleteFields(c.columns))
Records(c) == {RecordOf(c, p) : p \in {r \in 1 .. Count(c) : SendableOf(c, r)}} \cup {Garbage}

\* Rows of this run that have been sent, and the records of the chunk after them.
Start == read - Len(pending)
Chunk == [i \in DOMAIN pending |-> [fact |-> JobFact(jb, pending[i]), row |-> Start + i]]

Base ==
  /\ jb \in Cases /\ phase \in {"waiting", "running", "done", "failed"}
  /\ runs \in Seq(Limits) /\ (phase = "running" => Len(runs) > 0)
  /\ read \in 0 .. Count(jb) /\ Len(pending) <= read
  /\ pending \in Seq(ToSet(StrippedRows(jb)))
  /\ \A i \in 1 .. Len(pending) : pending[i] = JobRows(jb)[Start + i]
  /\ seq \in Nat /\ sink \in Seq(Records(jb)) /\ torn \in BOOLEAN /\ ledger \subseteq Nat

\* A record says which row it is of; only the rest of a line is of none.
LEMMA RecordIsRow ==
  ASSUME NEW c \in Cases, NEW r \in Records(c)
  PROVE  /\ r.row \in 0 .. Count(c) /\ (r.row = 0 <=> r = Garbage)
         /\ r.row # 0 => /\ r.row \in 1 .. Count(c) /\ r = RecordOf(c, r.row)
                         /\ SendableOf(c, r.row) /\ r.fact.id = RowId(c, r.row)
<1>1. Count(c) \in Nat
  BY JobRowsAreRaw
<1>2. CASE r = Garbage
  BY <1>1, <1>2 DEF Garbage
<1>3. CASE \E p \in 1 .. Count(c) : SendableOf(c, p) /\ r = RecordOf(c, p)
  <2>1. PICK p \in 1 .. Count(c) : SendableOf(c, p) /\ r = RecordOf(c, p)
    BY <1>3
  <2>2. r.row = p /\ r.fact = JobFact(c, JobRows(c)[p])
    BY <2>1 DEF RecordOf
  <2>3. r.fact.id = RowId(c, p)
    BY <2>2 DEF JobFact, BuildRecord, RowId
  <2>4. p # 0 /\ Garbage.row = 0 /\ p \in 0 .. Count(c)
    BY <1>1 DEF Garbage
  <2>. QED
    BY <2>1, <2>2, <2>3, <2>4
<1>. QED
  BY <1>2, <1>3 DEF Records

\* The chunk holds the rows from Start to read.
LEMMA ChunkIsRows ==
  ASSUME Base
  PROVE  /\ DOMAIN Chunk = 1 .. Len(pending) /\ Len(Chunk) = Len(pending) /\ Len(pending) \in Nat
         /\ Start \in 0 .. read /\ Start + Len(pending) = read /\ read \in Nat
         /\ DOMAIN pending = 1 .. Len(pending)
         /\ \A i \in 1 .. Len(pending) :
              /\ Start + i \in 1 .. Count(jb)
              /\ Chunk[i] = RecordOf(jb, Start + i) /\ Chunk[i].fact.id = RowId(jb, Start + i)
<1>. DEFINE V == ToSet(StrippedRows(jb))
<1>1. /\ pending \in Seq(V) /\ Len(pending) <= read /\ read \in 0 .. Count(jb)
      /\ jb \in Cases /\ \A i \in 1 .. Len(pending) : pending[i] = JobRows(jb)[Start + i]
  BY DEF Base
<1>2. Count(jb) \in Nat
  BY <1>1, JobRowsAreRaw
<1>. HIDE DEF V
<1>3. Len(pending) \in Nat /\ DOMAIN pending = 1 .. Len(pending)
  BY <1>1
<1>4. Start \in 0 .. read /\ Start + Len(pending) = read /\ read \in Nat
  BY <1>1, <1>2, <1>3 DEF Start
<1>5. DOMAIN Chunk = 1 .. Len(pending)
      /\ \A i \in 1 .. Len(pending) :
           Chunk[i] = [fact |-> JobFact(jb, pending[i]), row |-> Start + i]
  BY <1>3 DEF Chunk
<1>6. Len(Chunk) = Len(pending)
  <2>1. Chunk = [i \in 1 .. Len(pending) |-> Chunk[i]]
    BY <1>3 DEF Chunk
  <2>. QED
    BY <1>3, <1>5, <2>1
<1>7. ASSUME NEW i \in 1 .. Len(pending)
      PROVE  /\ Start + i \in 1 .. Count(jb)
             /\ Chunk[i] = RecordOf(jb, Start + i) /\ Chunk[i].fact.id = RowId(jb, Start + i)
  <2>1. Start + i \in 1 .. Count(jb)
    BY <1>1, <1>2, <1>3, <1>4
  <2>2. Chunk[i] = RecordOf(jb, Start + i)
    BY <1>1, <1>5 DEF RecordOf
  <2>3. RecordOf(jb, Start + i).fact.id = RowId(jb, Start + i)
    BY DEF RecordOf, JobFact, BuildRecord, RowId
  <2>. QED
    BY <2>1, <2>2, <2>3
<1>. QED
  BY <1>3, <1>4, <1>5, <1>6, <1>7

\* A chunk that can be built is made of records.
LEMMA ChunkIsRecords ==
  ASSUME Base, ChunkBuildable
  PROVE  /\ Chunk \in Seq(Records(jb))
         /\ \A i \in 1 .. Len(pending) : SendableOf(jb, Start + i)
<1>1. /\ DOMAIN Chunk = 1 .. Len(pending) /\ Len(pending) \in Nat
      /\ DOMAIN pending = 1 .. Len(pending)
      /\ \A i \in 1 .. Len(pending) : /\ Start + i \in 1 .. Count(jb)
                                      /\ Chunk[i] = RecordOf(jb, Start + i)
  BY ChunkIsRows
<1>2. ASSUME NEW i \in 1 .. Len(pending)
      PROVE  SendableOf(jb, Start + i)
  <2>1. pending[i] \in ToSet(pending) /\ pending[i] = JobRows(jb)[Start + i]
    BY <1>1 DEF ToSet, Base
  <2>. QED
    BY <2>1 DEF ChunkBuildable, SendableOf, Keys, Hard
<1>3. \A i \in 1 .. Len(pending) : Chunk[i] \in Records(jb)
  BY <1>1, <1>2 DEF Records
<1>4. Chunk = [i \in 1 .. Len(pending) |-> Chunk[i]]
  BY <1>1 DEF Chunk
<1>5. Chunk \in Seq(Records(jb))
  BY <1>1, <1>3, <1>4
<1>. QED
  BY <1>2, <1>5

\* The service completes what the http transport sends to what the file transport writes.
LEMMA WireIsRecord ==
  ASSUME NEW row, NEW keys, NEW hard
  PROVE  Stamped(BuildWireRecord(row, keys, hard)) = BuildRecord(row, keys, hard)
BY DEF Stamped, BuildWireRecord, BuildRecord

\* The chunk lands in the log with or without the marks of its rows.
Lands == seq \notin ledger /\ Commit(Chunk) /\ Mark(Chunk) /\ UNCHANGED unmarked
LandsBare ==
  /\ seq \notin ledger /\ Commit(Chunk) /\ UNCHANGED <<seen, ledger>>
  /\ unmarked' = unmarked \cup Len(sink) + 1 .. Len(sink')

\* What a send does: the chunk goes out, over either transport.
LEMMA SendHttpDoes ==
  ASSUME SendHttp
  PROVE  /\ jb.transport = "http" /\ phase = "running" /\ Due /\ ChunkBuildable
         /\ UNCHANGED <<jb, runs, torn>>
         /\ \/ UNCHANGED <<sink, service>> /\ (Broken \/ (seq \in ledger /\ Sent))
            \/ Lands /\ ledger' = ledger \cup {seq} /\ (Sent \/ Broken)
            \/ Lands /\ ledger' = ledger /\ Broken
            \/ LandsBare /\ Broken
<1>. DEFINE wired == [i \in DOMAIN pending |-> BuildWireRecord(pending[i], Keys, Hard)]
            facts == [i \in DOMAIN wired |-> Stamped(wired[i])]
            recs == Placed(facts)
<1>1. recs = Chunk
  <2>1. DOMAIN facts = DOMAIN pending
        /\ \A i \in DOMAIN pending : facts[i] = JobFact(jb, pending[i])
    BY WireIsRecord DEF JobFact, Keys, Hard
  <2>. HIDE DEF facts
  <2>2. recs = [i \in DOMAIN pending |-> [fact |-> facts[i], row |-> read - Len(pending) + i]]
    BY <2>1 DEF Placed
  <2>. QED
    BY <2>1, <2>2 DEF Chunk, Start
<1>2. /\ jb.transport = "http" /\ phase = "running" /\ Due /\ ChunkBuildable
      /\ UNCHANGED <<jb, runs, torn>>
      /\ \/ Sent /\ Ingest(recs)
         \/ Broken /\ (Ingest(recs) \/ IngestFails(recs) \/ UNCHANGED <<sink, service>>)
  BY DEF SendHttp
<1>. HIDE DEF recs
<1>3. Ingest(recs) => \/ seq \in ledger /\ UNCHANGED <<sink, service>>
                      \/ Lands /\ ledger' = ledger \cup {seq}
  BY <1>1 DEF Ingest, Lands
<1>4. IngestFails(recs) => (Lands /\ ledger' = ledger) \/ LandsBare
  BY <1>1 DEF IngestFails, Lands, LandsBare
<1>. QED
  BY <1>2, <1>3, <1>4

\* A file transport's send appends the chunk's lines or a part of them.
LEMMA SendFileDoes ==
  ASSUME SendFile
  PROVE  /\ jb.transport = "file" /\ phase = "running" /\ Due /\ ChunkBuildable
         /\ UNCHANGED <<jb, runs, service>> /\ AppendLines(Chunk)
<1>. DEFINE facts == [i \in DOMAIN pending |-> BuildRecord(pending[i], Keys, Hard)]
<1>1. Placed(facts) = Chunk
  <2>1. DOMAIN facts = DOMAIN pending
        /\ \A i \in DOMAIN pending : facts[i] = JobFact(jb, pending[i])
    BY DEF JobFact, Keys, Hard
  <2>. HIDE DEF facts
  <2>. QED
    BY <2>1 DEF Placed, Chunk, Start
<1>. HIDE DEF facts
<1>2. /\ jb.transport = "file" /\ phase = "running" /\ Due /\ ChunkBuildable
      /\ UNCHANGED <<jb, runs, service>> /\ AppendLines(Placed(facts))
  BY DEF SendFile, facts
<1>. QED
  BY <1>1, <1>2

\* The service does not know row i of the chunk by a mark.
IsNew(i) == Chunk[i].fact.id = None \/ Chunk[i].fact.id \notin seen

\* What is new of the chunk: each of its facts that the service does not know
\* by a mark, once.
LEMMA NewOfChunk ==
  ASSUME Base, ChunkBuildable
  PROVE  /\ New(Chunk) \in Seq(Records(jb))
         /\ \E at \in [1 .. Len(New(Chunk)) -> 1 .. Len(pending)] :
              /\ \A n \in 1 .. Len(New(Chunk)) : New(Chunk)[n] = Chunk[at[n]] /\ IsNew(at[n])
              /\ \A m, n \in 1 .. Len(New(Chunk)) : at[m] = at[n] => m = n
              /\ \A i \in 1 .. Len(pending) : IsNew(i) =>
                   \E n \in 1 .. Len(New(Chunk)) : at[n] = i
<1>. DEFINE I == {n \in DOMAIN Chunk : Chunk[n].fact.id = None \/ Chunk[n].fact.id \notin seen}
            k == Cardinality(I)
            q == New(Chunk)
<1>1. Chunk \in Seq(Records(jb)) /\ Len(Chunk) = Len(pending) /\ DOMAIN Chunk = 1 .. Len(pending)
  BY ChunkIsRows, ChunkIsRecords
<1>2. q = Picked(Chunk, I)
  BY DEF New
<1>3. I \in SUBSET (1 .. Len(Chunk))
  BY <1>1
<1>4. \A i \in 1 .. Len(pending) : i \in I <=> IsNew(i)
  BY <1>1 DEF IsNew
<1>. HIDE DEF I, q
<1>5. /\ q \in Seq(Records(jb)) /\ Len(q) = k /\ k \in Nat
      /\ \E at \in Bijection(1 .. k, I) : \A n \in 1 .. k : q[n] = Chunk[at[n]]
  BY <1>1, <1>2, <1>3, PickedIsSelection
<1>6. PICK at \in Bijection(1 .. k, I) : \A n \in 1 .. k : q[n] = Chunk[at[n]]
  BY <1>5
<1>7. /\ at \in [1 .. k -> I] /\ \A i \in I : \E n \in 1 .. k : at[n] = i
      /\ \A m, n \in 1 .. k : at[m] = at[n] => m = n
  <2>. DEFINE N == 1 .. k
  <2>. HIDE DEF k, N
  <2>1. at \in Bijection(N, I)
    BY <1>6 DEF N
  <2>2. at \in [N -> I] /\ (\A i \in I : \E n \in N : at[n] = i)
        /\ (\A m, n \in N : at[m] = at[n] => m = n)
    BY <2>1, Fun_BijectionProperties
  <2>. QED
    BY <2>2 DEF N
<1>8. at \in [1 .. k -> 1 .. Len(pending)]
  BY <1>1, <1>3, <1>7
<1>9. \A n \in 1 .. k : q[n] = Chunk[at[n]] /\ IsNew(at[n])
  BY <1>4, <1>6, <1>7, <1>8
<1>10. \A i \in 1 .. Len(pending) : IsNew(i) => \E n \in 1 .. k : at[n] = i
  BY <1>4, <1>7
<1>. HIDE DEF k
<1>. QED
  BY <1>5, <1>7, <1>8, <1>9, <1>10 DEF q

\* The log after the service has taken the chunk.
LEMMA SinkAfter ==
  ASSUME Base, ChunkBuildable, NEW after, after = sink \o New(Chunk)
  PROVE  /\ after \in Seq(Records(jb)) /\ Len(sink) \in Nat /\ Len(after) \in Nat
         /\ Len(after) = Len(sink) + Len(New(Chunk)) /\ Len(New(Chunk)) \in Nat
         /\ \A n \in 1 .. Len(sink) : n \in 1 .. Len(after) /\ after[n] = sink[n]
         /\ \A n \in 1 .. Len(after) : n \in 1 .. Len(sink) \/ n \in Len(sink) + 1 .. Len(after)
         /\ \A n \in Len(sink) + 1 .. Len(after) :
              n - Len(sink) \in 1 .. Len(New(Chunk)) /\ after[n] = New(Chunk)[n - Len(sink)]
         /\ \A n \in 1 .. Len(New(Chunk)) :
              n + Len(sink) \in 1 .. Len(after) /\ after[n + Len(sink)] = New(Chunk)[n]
<1>. DEFINE F == Records(jb)
            q == New(Chunk)
<1>1. sink \in Seq(F) /\ q \in Seq(F)
  BY NewOfChunk DEF Base
<1>. HIDE DEF F, q
<1>2. /\ Len(sink) \in Nat /\ Len(q) \in Nat /\ after = sink \o q
  BY <1>1 DEF q
<1>3. /\ after \in Seq(F) /\ Len(after) = Len(sink) + Len(q)
      /\ \A n \in 1 .. Len(after) :
           after[n] = IF n <= Len(sink) THEN sink[n] ELSE q[n - Len(sink)]
  BY <1>1, <1>2, ConcatProperties
<1>4. \A n \in 1 .. Len(sink) : n \in 1 .. Len(after) /\ after[n] = sink[n]
  BY <1>2, <1>3
<1>5. \A n \in Len(sink) + 1 .. Len(after) : n - Len(sink) \in 1 .. Len(q) /\ after[n] = q[n - Len(sink)]
  BY <1>2, <1>3
<1>6. ASSUME NEW n \in 1 .. Len(q)
      PROVE  n + Len(sink) \in 1 .. Len(after) /\ after[n + Len(sink)] = q[n]
  <2>1. n + Len(sink) \in Len(sink) + 1 .. Len(after) /\ n + Len(sink) \in 1 .. Len(after)
        /\ (n + Len(sink)) - Len(sink) = n
    BY <1>2, <1>3
  <2>. QED
    BY <1>5, <2>1
<1>7. \A n \in 1 .. Len(after) : n \in 1 .. Len(sink) \/ n \in Len(sink) + 1 .. Len(after)
  BY <1>2, <1>3
<1>. QED
  BY <1>2, <1>3, <1>4, <1>5, <1>6, <1>7 DEF F, q


\* What the transport writes are records.
LEMMA WrittenIsRecords ==
  ASSUME NEW c, NEW recs \in Seq(Records(c))
  PROVE  /\ Written(recs) \in Seq(Records(c)) /\ Len(Written(recs)) = Len(recs)
         /\ \A n \in 1 .. Len(recs) :
              Written(recs)[n] = IF torn /\ n = 1 THEN Garbage ELSE recs[n]
<1>. DEFINE F == Records(c)
<1>1. Garbage \in F
  BY DEF Records
<1>2. CASE torn /\ recs # <<>>
  <2>. DEFINE w == <<Garbage>> \o Tail(recs)
  <2>. HIDE DEF F
  <2>1. Len(recs) \in Nat /\ Len(recs) > 0
    BY <1>2 DEF F
  <2>2. /\ Tail(recs) \in Seq(F) /\ Len(Tail(recs)) = Len(recs) - 1
        /\ \A n \in 1 .. Len(recs) - 1 : Tail(recs)[n] = recs[n + 1]
    BY <1>2 DEF F
  <2>3. /\ w \in Seq(F) /\ Len(w) = Len(recs) /\ w[1] = Garbage
        /\ \A n \in 2 .. Len(recs) : w[n] = Tail(recs)[n - 1]
    BY <1>1, <2>1, <2>2
  <2>. HIDE DEF w
  <2>4. \A n \in 2 .. Len(recs) : n - 1 \in 1 .. Len(recs) - 1 /\ (n - 1) + 1 = n /\ n # 1
    BY <2>1
  <2>5. \A n \in 1 .. Len(recs) : n = 1 \/ n \in 2 .. Len(recs)
    BY <2>1
  <2>. QED
    BY <1>2, <2>2, <2>3, <2>4, <2>5 DEF Written, F, w
<1>3. CASE ~(torn /\ recs # <<>>)
  <2>1. Written(recs) = recs
    BY <1>3 DEF Written
  <2>2. recs = <<>> => Len(recs) = 0
    OBVIOUS
  <2>. QED
    BY <1>3, <2>1, <2>2
<1>. QED
  BY <1>2, <1>3

\* The file after a send: it has grown by lines of the chunk, from its first.
LEMMA FileAfter ==
  ASSUME Base, SendFile
  PROVE  \E recs \in Seq(Records(jb)) :
           /\ sink' = sink \o Written(recs) /\ torn' \in BOOLEAN
           /\ \/ Sent /\ recs = Chunk /\ torn' = (torn /\ recs = <<>>)
              \/ Broken
<1>1. AppendLines(Chunk) /\ Chunk \in Seq(Records(jb)) /\ torn \in BOOLEAN
  BY SendFileDoes, ChunkIsRecords DEF Base
<1>2. CASE Sent /\ sink' = sink \o Written(Chunk) /\ torn' = (torn /\ Chunk = <<>>)
  BY <1>1, <1>2
<1>3. CASE /\ Broken
           /\ \E k \in 0 .. Len(Chunk), part \in BOOLEAN :
                /\ part => k < Len(Chunk)
                /\ sink' = sink \o Written(SubSeq(Chunk, 1, k))
                /\ torn' = (part \/ (torn /\ k = 0))
  <2>1. PICK k \in 0 .. Len(Chunk), part \in BOOLEAN :
          sink' = sink \o Written(SubSeq(Chunk, 1, k)) /\ torn' = (part \/ (torn /\ k = 0))
    BY <1>3
  <2>2. SubSeq(Chunk, 1, k) \in Seq(Records(jb))
    <3>. DEFINE F == Records(jb)
    <3>1. Chunk \in Seq(F) /\ k \in 0 .. Len(Chunk)
      BY <1>1
    <3>. HIDE DEF F
    <3>2. \A i \in 1 .. k : Chunk[i] \in F
      BY <3>1
    <3>3. SubSeq(Chunk, 1, k) \in Seq(F)
      BY <3>1, <3>2
    <3>. QED
      BY <3>3 DEF F
  <2>3. torn' \in BOOLEAN
    BY <1>1, <2>1
  <2>. QED
    BY <1>3, <2>1, <2>2, <2>3
<1>. QED
  BY <1>1, <1>2, <1>3 DEF AppendLines

\* A send moves on to the next chunk or ends the run.
LEMMA SendMoves ==
  ASSUME Base, phase = "running", UNCHANGED <<jb, runs>>, Sent \/ Broken,
         sink' \in Seq(Records(jb)), torn' \in BOOLEAN, ledger' \subseteq Nat
  PROVE  Base'
<1>1. CASE Sent
  <2>1. Len(<<>>) = 0 /\ <<>> \in Seq(ToSet(StrippedRows(jb)))
    OBVIOUS
  <2>2. read \in Nat
    BY ChunkIsRows
  <2>. QED
    BY <1>1, <2>1, <2>2 DEF Base, Sent
<1>2. CASE Broken
  BY <1>2 DEF Base, Broken, Start
<1>. QED
  BY <1>1, <1>2

\* A job starts before its first row, with nothing sent.
LEMMA BaseStart == Init => Base
<1>. SUFFICES ASSUME Init PROVE Base
  OBVIOUS
<1>1. jb \in Cases /\ Count(jb) \in Nat
  BY JobRowsAreRaw DEF Init
<1>2. Len(pending) = 0 /\ pending \in Seq(ToSet(StrippedRows(jb)))
  BY DEF Init
<1>3. runs \in Seq(Limits) /\ sink \in Seq(Records(jb))
  BY DEF Init
<1>4. \A i \in 1 .. Len(pending) : pending[i] = JobRows(jb)[Start + i]
  BY <1>2
<1>5. read \in 0 .. Count(jb) /\ Len(pending) <= read
  BY <1>1, <1>2 DEF Init
<1>. QED
  BY <1>1, <1>2, <1>3, <1>4, <1>5 DEF Init, Base

\* Each step keeps the chunk under way the rows between two positions of the file.
LEMMA BaseNext == Base /\ [Next]_vars => Base'
<1>. SUFFICES ASSUME Base, [Next]_vars PROVE Base'
  OBVIOUS
<1>1. CASE Run
  <2>1. PICK l \in Limits : runs' = Append(runs, l)
    BY <1>1 DEF Run
  <2>2. runs' \in Seq(Limits) /\ Len(runs') > 0
    BY <2>1 DEF Base
  <2>3. Len(<<>>) = 0 /\ Count(jb) \in Nat
    BY JobRowsAreRaw DEF Base
  <2>. QED
    BY <1>1, <2>2, <2>3 DEF Run, Base, service
<1>2. CASE TakeRow
  <2>. DEFINE V == ToSet(StrippedRows(jb))
  <2>1. /\ phase = "running" /\ read < Count(jb) /\ read' = read + 1
        /\ pending' = Append(pending, JobRows(jb)[read + 1])
        /\ UNCHANGED <<jb, phase, runs, seq, sink, torn, ledger>>
    BY <1>2 DEF TakeRow, Rows, JobRows, Count, service
  <2>2. /\ JobRows(jb) \in Seq(V) /\ Count(jb) \in Nat /\ Count(jb) = Len(JobRows(jb))
        /\ pending \in Seq(V) /\ read \in Nat /\ Len(pending) \in Nat /\ Len(pending) <= read
        /\ Start + Len(pending) = read
    BY JobRowsAreRaw, ChunkIsRows DEF Base, Count
  <2>. HIDE DEF V
  <2>3. JobRows(jb)[read + 1] \in V
    <3>1. read + 1 \in 1 .. Len(JobRows(jb))
      BY <2>1, <2>2
    <3>. QED
      BY <2>2, <3>1
  <2>4. /\ pending' \in Seq(V) /\ Len(pending') = Len(pending) + 1
        /\ \A i \in 1 .. Len(pending) : pending'[i] = pending[i]
        /\ pending'[Len(pending) + 1] = JobRows(jb)[read + 1]
    BY <2>1, <2>2, <2>3, AppendProperties
  <2>5. Start' = Start
    BY <2>1, <2>2, <2>4 DEF Start
  <2>6. ASSUME NEW i \in 1 .. Len(pending')
        PROVE  pending'[i] = JobRows(jb)[Start + i]
    <3>1. i \in 1 .. Len(pending) \/ i = Len(pending) + 1
      BY <2>2, <2>4
    <3>2. Start + (Len(pending) + 1) = read + 1
      BY <2>2 DEF Start
    <3>. QED
      BY <2>4, <3>1, <3>2 DEF Base
  <2>7. read' \in 0 .. Count(jb) /\ Len(pending') <= read'
    BY <2>1, <2>2, <2>4
  <2>. QED
    BY <2>1, <2>4, <2>5, <2>6, <2>7 DEF Base, V
<1>3. CASE SendFile
  <2>1. PICK recs \in Seq(Records(jb)) :
          sink' = sink \o Written(recs) /\ torn' \in BOOLEAN /\ (Sent \/ Broken)
    BY <1>3, FileAfter
  <2>2. sink \in Seq(Records(jb)) /\ Written(recs) \in Seq(Records(jb))
    BY WrittenIsRecords DEF Base
  <2>3. sink' \in Seq(Records(jb))
    BY <2>1, <2>2, ConcatProperties
  <2>. QED
    BY <1>3, <2>1, <2>3, SendFileDoes, SendMoves DEF Base, service
<1>4. CASE SendHttp
  <2>1. /\ phase = "running" /\ UNCHANGED <<jb, runs, torn>> /\ (Sent \/ Broken)
        /\ ChunkBuildable /\ (sink' = sink \/ sink' = sink \o New(Chunk))
        /\ (ledger' = ledger \/ ledger' = ledger \cup {seq})
    BY <1>4, SendHttpDoes DEF Lands, LandsBare, Commit, service
  <2>2. sink' \in Seq(Records(jb))
    BY <2>1, SinkAfter DEF Base
  <2>. QED
    BY <2>1, <2>2, SendMoves DEF Base
<1>5. CASE Return
  BY <1>5 DEF Return, Base, Start, service
<1>6. CASE UNCHANGED vars
  BY <1>6 DEF vars, Base, Start, service
<1>7. CASE SendRaises
  BY <1>7, SendMoves DEF SendRaises, Base, service
<1>. QED
  BY <1>1, <1>2, <1>3, <1>4, <1>5, <1>6, <1>7 DEF Next

-----------------------------------------------------------------------------
(* What the rows stand for                                                 *)

\* dlt's own columns are no keys and mark no row as deleted.
IdsAreNotKeys ==
  \A c \in Cases : \A d \in ToSet(c.columns) :
    d.name \in {"_dlt_id", "_dlt_load_id"} => ~d.primary /\ ~d.merge /\ ~d.hard

ColumnNames(c) == {d.name : d \in ToSet(c.columns)}

\* Row i of the file without markers, unknown columns and ids.
BodyOf(c, i) == Popped(StrippedRows(c)[i])

\* What the columns of a row are in the file.
LEMMA CellsOfRow ==
  ASSUME jb \in Cases, NEW i \in 1 .. Count(jb)
  PROVE  /\ \A n \in ColumnNames(jb) : Cell(StrippedRows(jb)[i], n) = ValueOf(i, n)
         /\ \A n \in ColumnNames(jb) \ {"_dlt_id", "_dlt_load_id"} :
              Cell(BodyOf(jb, i), n) = ValueOf(i, n)
         /\ LET names == ColumnNames(jb) \ {"_dlt_id", "_dlt_load_id"}
            IN BodyOf(jb, i) = [n \in DOMAIN Raw[i] \cap names |-> ValueOf(i, n)]
<1>. DEFINE ids == {"_dlt_id", "_dlt_load_id"}
            columns == ColumnNames(jb) \cup ids
            raw == Raw[i]
            S == StrippedRows(jb)[i]
            B == BodyOf(jb, i)
<1>1. Count(jb) = Len(RawRows(jb)) /\ DOMAIN RawRows(jb) = 1 .. Len(RawRows(jb))
  BY StrippedIsRaw, RowsInOrder
<1>2. DOMAIN Raw = 1 .. Count(jb) /\ Raw = RawRows(jb)
  BY <1>1 DEF Raw, RawRows
<1>3. S = Restrict(StripPua(raw), DOMAIN raw \cap columns)
  BY <1>2 DEF StrippedRows, Raw, ColumnNames
<1>4. S = [n \in DOMAIN raw \cap columns |-> Stripped(raw[n])]
  BY <1>3 DEF Restrict, StripPua
<1>5. \A n : ValueOf(i, n) = IF n \in DOMAIN raw THEN Stripped(raw[n]) ELSE None
  BY DEF ValueOf
<1>. HIDE DEF raw, columns
<1>6. DOMAIN S = DOMAIN raw \cap columns /\ \A n \in DOMAIN S : S[n] = Stripped(raw[n])
  BY <1>4
<1>7. B = [n \in DOMAIN S \ ids |-> S[n]]
  BY DEF BodyOf, Popped, Restrict
<1>. HIDE DEF S, B
<1>8. \A n \in ColumnNames(jb) : Cell(S, n) = ValueOf(i, n)
  <2>1. ColumnNames(jb) \subseteq columns
    BY DEF columns
  <2>. QED
    BY <1>5, <1>6, <2>1 DEF Cell
<1>9. DOMAIN B = DOMAIN S \ ids /\ \A n \in DOMAIN B : B[n] = S[n]
  BY <1>7
<1>10. \A n \in ColumnNames(jb) \ ids : Cell(B, n) = Cell(S, n)
  BY <1>9 DEF Cell
<1>11. DOMAIN S \ ids = DOMAIN raw \cap (ColumnNames(jb) \ ids)
  BY <1>6 DEF columns
<1>12. B = [n \in DOMAIN raw \cap (ColumnNames(jb) \ ids) |-> ValueOf(i, n)]
  <2>1. \A n \in DOMAIN S \ ids : S[n] = ValueOf(i, n)
    BY <1>5, <1>6
  <2>. QED
    BY <1>7, <1>11, <2>1
<1>. QED
  BY <1>8, <1>10, <1>12 DEF S, B, raw

\* The keys and the hard-delete columns are columns, and not dlt's own.
LEMMA KeysAreColumns ==
  ASSUME jb \in Cases, IdsAreNotKeys
  PROVE  /\ Keys \subseteq ColumnNames(jb) \ {"_dlt_id", "_dlt_load_id"}
         /\ HardDeleteFields(jb.columns) \subseteq ColumnNames(jb) \ {"_dlt_id", "_dlt_load_id"}
<1>1. ASSUME NEW d \in ToSet(jb.columns), d.primary \/ d.merge \/ d.hard
      PROVE  d.name \in ColumnNames(jb) \ {"_dlt_id", "_dlt_load_id"}
  BY <1>1 DEF IdsAreNotKeys, ColumnNames
<1>2. \A n \in Keys : \E d \in ToSet(jb.columns) : n = d.name /\ (d.primary \/ d.merge)
  BY DEF Keys, KeyFields
<1>3. \A n \in HardDeleteFields(jb.columns) : \E d \in ToSet(jb.columns) : n = d.name /\ d.hard
  BY DEF HardDeleteFields
<1>. QED
  BY <1>1, <1>2, <1>3
\* The fact of a row is what the row stands for.
LEMMA FactsOfRows ==
  ASSUME jb \in Cases, IdsAreNotKeys, NEW from, SentFrom(jb, from),
         NEW p \in 1 .. Count(jb), SendableOf(jb, p)
  PROVE  /\ from[p] \in 1 .. Count(jb) /\ RecordOf(jb, p).fact = FactOf(from[p])
         /\ \A k \in Keys : Cell(FactOf(from[p]).body, k) = ValueOf(from[p], k)
<1>. DEFINE i == from[p]
            B == BodyOf(jb, i)
            fact == JobFact(jb, JobRows(jb)[p])
            names == ColumnNames(jb) \ {"_dlt_id", "_dlt_load_id"}
<1>0. i \in 1 .. Count(jb) /\ JobRows(jb)[p] = StrippedRows(jb)[i]
  <2>. DEFINE N == 1 .. Count(jb)
  <2>1. from \in Bijection(N, N) /\ p \in N /\ \A n \in N : JobRows(jb)[n] = StrippedRows(jb)[from[n]]
    BY DEF SentFrom
  <2>. HIDE DEF N
  <2>2. from[p] \in N /\ JobRows(jb)[p] = StrippedRows(jb)[from[p]]
    BY <2>1, Fun_BijectionProperties
  <2>. QED
    BY <2>2 DEF N
<1>1. \A n \in Keys \cup Hard : Cell(B, n) = ValueOf(i, n)
  <2>1. \A n \in ColumnNames(jb) \ {"_dlt_id", "_dlt_load_id"} :
          Cell(BodyOf(jb, i), n) = ValueOf(i, n)
    BY <1>0, CellsOfRow
  <2>2. Keys \cup Hard \subseteq ColumnNames(jb) \ {"_dlt_id", "_dlt_load_id"}
    BY KeysAreColumns DEF Hard
  <2>. QED
    BY <2>1, <2>2
<1>2. B = [n \in DOMAIN Raw[i] \cap names |-> ValueOf(i, n)]
  BY <1>0, CellsOfRow
<1>3. /\ fact = [body |-> Body(B, Keys, Hard), tombstone |-> IsTombstone(B, Hard),
                 id |-> RowId(jb, p)]
      /\ Buildable(B, Keys, Hard)
  BY <1>0 DEF JobFact, BuildRecord, BodyOf, Keys, Hard, RowId, SendableOf
<1>4. RowId(jb, p) = ValueOf(i, "_dlt_id")
  <2>1. /\ Count(jb) = Len(RawRows(jb))
        /\ \A n \in 1 .. Count(jb) : Cell(StrippedRows(jb)[n], "_dlt_id") = RawId(jb, n)
    BY StrippedIsRaw, RowsInOrder
  <2>2. RawId(jb, i) = ValueOf(i, "_dlt_id")
    BY DEF RawId, ValueOf, Raw, RawRows
  <2>. QED
    BY <1>0, <2>1, <2>2 DEF RowId
<1>. HIDE DEF B, i, fact
<1>5. IsTombstone(B, Hard) <=> Deleted(i)
  <2>1. \A n : n \in Hard <=> \E c \in ToSet(jb.columns) : c.hard /\ n = c.name
    BY DEF Hard, HardDeleteFields
  <2>2. IsTombstone(B, Hard) <=> \E n \in Hard : ValueOf(i, n) \notin {None, FALSE}
    BY <1>1 DEF IsTombstone
  <2>3. Deleted(i) <=> \E c \in ToSet(jb.columns) : c.hard /\ ValueOf(i, c.name) \notin {None, FALSE}
    BY DEF Deleted
  <2>. QED
    BY <2>1, <2>2, <2>3
<1>6. IsTombstone(B, Hard) = Deleted(i)
  <2>1. IsTombstone(B, Hard) \in BOOLEAN /\ Deleted(i) \in BOOLEAN
    BY DEF IsTombstone, Deleted
  <2>. QED
    BY <1>5, <2>1
<1>7. CASE Deleted(i) /\ Keys # {}
  <2>1. Keys \subseteq DOMAIN B
    BY <1>3, <1>5, <1>7 DEF Buildable
  <2>2. Body(B, Keys, Hard) = [k \in Keys |-> B[k]]
    BY <1>5, <1>7 DEF Body, Restrict
  <2>3. \A k \in Keys : B[k] = ValueOf(i, k)
    BY <1>1, <2>1 DEF Cell
  <2>4. Body(B, Keys, Hard) = [k \in Keys |-> ValueOf(i, k)]
    BY <2>2, <2>3
  <2>5. FactOf(i) = [body |-> [k \in Keys |-> ValueOf(i, k)], tombstone |-> Deleted(i),
                     id |-> ValueOf(i, "_dlt_id")]
    BY <1>7 DEF FactOf
  <2>6. fact = FactOf(i) /\ \A k \in Keys : Cell(FactOf(i).body, k) = ValueOf(i, k)
    BY <1>3, <1>4, <1>6, <2>4, <2>5 DEF Cell
  <2>. QED
    BY <1>0, <2>6 DEF RecordOf, fact, i
<1>8. CASE ~(Deleted(i) /\ Keys # {})
  <2>1. Body(B, Keys, Hard) = B
    BY <1>5, <1>8 DEF Body
  <2>2. FactOf(i) = [body |-> [n \in DOMAIN Raw[i] \cap names |-> ValueOf(i, n)],
                     tombstone |-> Deleted(i), id |-> ValueOf(i, "_dlt_id")]
    BY <1>8 DEF FactOf, ColumnNames
  <2>. HIDE DEF names
  <2>3. fact = FactOf(i) /\ FactOf(i).body = B
    BY <1>2, <1>3, <1>4, <1>6, <2>1, <2>2
  <2>. QED
    BY <1>0, <1>1, <2>3 DEF RecordOf, fact, i
<1>. QED
  BY <1>7, <1>8

\* Row p is in the sink.
Landed(p) == \E n \in 1 .. Len(sink) : sink[n].row = p

\* Of rows that stand for a fact, the sink has as many copies as have landed.
LEMMA LandedCounts ==
  ASSUME Base, IdsAreNotKeys, NEW from, SentFrom(jb, from), NEW f,
         NEW S \in SUBSET {i \in DOMAIN Raw : FactOf(i) = f},
         \A p \in 1 .. Count(jb) : from[p] \in S => Landed(p)
  PROVE  /\ IsFiniteSet(S) /\ Cardinality(S) \in Nat /\ InSink(f) \in Nat
         /\ Cardinality(S) <= InSink(f)
<1>. DEFINE N == 1 .. Count(jb)
            T == {n \in DOMAIN sink : sink[n].fact = f}
            Holds(i, n) == sink[n].row \in N /\ from[sink[n].row] = i
            g == [i \in S |-> CHOOSE n \in T : Holds(i, n)]
<1>1. jb \in Cases /\ DOMAIN sink = 1 .. Len(sink) /\ Len(sink) \in Nat
      /\ \A n \in 1 .. Len(sink) : sink[n] \in Records(jb)
  BY DEF Base
<1>2. DOMAIN Raw = N
  BY <1>1, StrippedIsRaw, RowsInOrder DEF Raw, RawRows
<1>3. \A i \in N : \E p \in N : from[p] = i
  <2>1. from \in Bijection(N, N)
    BY DEF SentFrom
  <2>. HIDE DEF N
  <2>. QED
    BY <2>1, Fun_BijectionProperties
<1>4. ASSUME NEW i \in S
      PROVE  \E n \in T : Holds(i, n)
  <2>1. i \in N /\ FactOf(i) = f
    BY <1>2
  <2>2. PICK p \in N : from[p] = i
    BY <1>3, <2>1
  <2>3. PICK n \in 1 .. Len(sink) : sink[n].row = p
    BY <2>2 DEF Landed
  <2>4. sink[n].row # 0
    BY <2>2, <2>3
  <2>5. sink[n] = RecordOf(jb, p) /\ SendableOf(jb, p)
    BY <1>1, <2>3, <2>4, RecordIsRow
  <2>6. RecordOf(jb, p).fact = FactOf(i)
    BY <1>1, <2>2, <2>5, FactsOfRows
  <2>7. n \in T
    BY <1>1, <2>1, <2>5, <2>6
  <2>8. Holds(i, n)
    BY <2>2, <2>3
  <2>. HIDE DEF T, Holds
  <2>. QED
    BY <2>7, <2>8
<1>5. \A i \in S : g[i] \in T /\ Holds(i, g[i])
  <2>. HIDE DEF T, Holds
  <2>. QED
    BY <1>4
<1>6. g \in [S -> T] /\ \A i, j \in S : g[i] = g[j] => i = j
  <2>1. \A i, j, n : Holds(i, n) /\ Holds(j, n) => i = j
    OBVIOUS
  <2>2. g = [i \in S |-> g[i]]
    OBVIOUS
  <2>. HIDE DEF g, T, Holds
  <2>3. \A i, j \in S : g[i] = g[j] => i = j
    BY <1>5, <2>1
  <2>4. g \in [S -> T]
    BY <1>5, <2>2
  <2>. QED
    BY <2>3, <2>4
<1>. HIDE DEF g
<1>7. g \in Injection(S, T)
  <2>. HIDE DEF T
  <2>. QED
    BY <1>6, Fun_IsInj
<1>8. T \in SUBSET (1 .. Len(sink))
  BY <1>1
<1>9. IsFiniteSet(T) /\ InSink(f) = Cardinality(T)
  <2>1. InSink(f) = Cardinality(T)
    BY DEF InSink
  <2>. HIDE DEF T
  <2>. QED
    BY <1>1, <1>8, <2>1, UpToIsFinite, FS_Subset
<1>. HIDE DEF T
<1>10. IsFiniteSet(S) /\ Cardinality(S) <= Cardinality(T)
  BY <1>7, <1>9, FS_Injection
<1>. QED
  BY <1>9, <1>10, FS_CardinalityType

\* Only a send changes the sink or what the service knows.
LEMMA OnlySends ==
  ASSUME [Next]_vars
  PROVE  /\ jb' = jb
         /\ SendHttp \/ SendFile \/ UNCHANGED <<sink, torn, service>>
<1>1. SendHttp \/ SendFile => jb' = jb
  BY SendHttpDoes, SendFileDoes
<1>2. Run \/ TakeRow \/ SendRaises \/ Return \/ UNCHANGED vars
      => UNCHANGED <<jb, sink, torn, service>>
  BY DEF Run, TakeRow, SendRaises, Return, vars, service
<1>. QED
  BY <1>1, <1>2 DEF Next

-----------------------------------------------------------------------------
(* No marked row lands again                                               *)

\* What a commit adds to the log: the new records of the chunk, each once.
LEMMA CommitAdds ==
  ASSUME Base, ChunkBuildable, Commit(Chunk)
  PROVE  /\ Len(sink) \in Nat /\ Len(sink') \in Nat /\ Len(sink) <= Len(sink')
         /\ \A n \in 1 .. Len(sink) : n \in 1 .. Len(sink') /\ sink'[n] = sink[n]
         /\ \A n \in 1 .. Len(sink') : n \in 1 .. Len(sink) \/ n \in Len(sink) + 1 .. Len(sink')
         /\ \A n \in Len(sink) + 1 .. Len(sink') :
              \E i \in 1 .. Len(pending) : sink'[n] = Chunk[i] /\ IsNew(i)
         /\ \A i \in 1 .. Len(pending) : IsNew(i) =>
              \E n \in Len(sink) + 1 .. Len(sink') : sink'[n] = Chunk[i]
         /\ \A m, n \in Len(sink) + 1 .. Len(sink') : m # n => sink'[m].row # sink'[n].row
<1>. DEFINE s == Len(sink)
            q == New(Chunk)
<1>1. /\ s \in Nat /\ Len(q) \in Nat /\ Len(sink') = s + Len(q)
      /\ \A n \in 1 .. s : n \in 1 .. Len(sink') /\ sink'[n] = sink[n]
      /\ \A n \in 1 .. Len(sink') : n \in 1 .. s \/ n \in s + 1 .. Len(sink')
      /\ \A n \in s + 1 .. Len(sink') : n - s \in 1 .. Len(q) /\ sink'[n] = q[n - s]
      /\ \A n \in 1 .. Len(q) : n + s \in 1 .. Len(sink') /\ sink'[n + s] = q[n]
  BY SinkAfter DEF Commit
<1>2. PICK at \in [1 .. Len(q) -> 1 .. Len(pending)] :
        /\ \A n \in 1 .. Len(q) : q[n] = Chunk[at[n]] /\ IsNew(at[n])
        /\ \A m, n \in 1 .. Len(q) : at[m] = at[n] => m = n
        /\ \A i \in 1 .. Len(pending) : IsNew(i) => \E n \in 1 .. Len(q) : at[n] = i
  BY NewOfChunk
<1>. HIDE DEF s, q
<1>3. \A n \in 1 .. Len(q) : at[n] \in 1 .. Len(pending)
  OBVIOUS
<1>4. ASSUME NEW n \in s + 1 .. Len(sink')
      PROVE  \E i \in 1 .. Len(pending) : sink'[n] = Chunk[i] /\ IsNew(i)
  <2>1. n - s \in 1 .. Len(q) /\ sink'[n] = q[n - s]
    BY <1>1
  <2>2. at[n - s] \in 1 .. Len(pending) /\ sink'[n] = Chunk[at[n - s]] /\ IsNew(at[n - s])
    BY <1>2, <1>3, <2>1
  <2>. QED
    BY <2>2
<1>5. ASSUME NEW i \in 1 .. Len(pending), IsNew(i)
      PROVE  \E n \in s + 1 .. Len(sink') : sink'[n] = Chunk[i]
  <2>1. PICK n \in 1 .. Len(q) : at[n] = i
    BY <1>2, <1>5
  <2>2. n + s \in s + 1 .. Len(sink') /\ sink'[n + s] = Chunk[i]
    BY <1>1, <1>2, <2>1
  <2>. QED
    BY <2>2
<1>6. ASSUME NEW m \in s + 1 .. Len(sink'), NEW n \in s + 1 .. Len(sink'), m # n
      PROVE  sink'[m].row # sink'[n].row
  <2>1. m - s \in 1 .. Len(q) /\ n - s \in 1 .. Len(q) /\ m - s # n - s
    BY <1>1, <1>6
  <2>2. /\ at[m - s] \in 1 .. Len(pending) /\ at[n - s] \in 1 .. Len(pending)
        /\ at[m - s] # at[n - s]
        /\ sink'[m] = Chunk[at[m - s]] /\ sink'[n] = Chunk[at[n - s]]
    BY <1>1, <1>2, <1>3, <2>1
  <2>3. \A i \in 1 .. Len(pending) : Chunk[i].row = Start + i
    BY ChunkIsRows DEF RecordOf
  <2>4. Start \in Nat /\ Len(pending) \in Nat
    BY ChunkIsRows
  <2>. QED
    BY <2>2, <2>3, <2>4
<1>7. s <= Len(sink') /\ Len(sink') \in Nat
  BY <1>1
<1>. QED
  BY <1>1, <1>4, <1>5, <1>6, <1>7 DEF s

\* The marks are the ids of the log, but for those of commits that broke off.
Marks ==
  jb.transport = "http" =>
    /\ \A n \in 1 .. Len(sink) : sink[n].row # 0
    /\ unmarked \subseteq 1 .. Len(sink)
    /\ \A n \in 1 .. Len(sink) :
         n \notin unmarked /\ sink[n].fact.id # None => sink[n].fact.id \in seen
    /\ \A d \in seen :
         d # None /\ \E n \in 1 .. Len(sink) : n \notin unmarked /\ sink[n].fact.id = d

\* What the marks of a chunk add.
LEMMA MarkAdds ==
  ASSUME Base, ChunkBuildable, Commit(Chunk), Mark(Chunk)
  PROVE  /\ seen \subseteq seen'
         /\ \A n \in Len(sink) + 1 .. Len(sink') :
              sink'[n].fact.id # None => sink'[n].fact.id \in seen'
         /\ \A d \in seen' : d \in seen \/
              (d # None /\ \E n \in Len(sink) + 1 .. Len(sink') : sink'[n].fact.id = d)
<1>. DEFINE q == New(Chunk)
            s == Len(sink)
<1>1. /\ s \in Nat /\ Len(q) \in Nat /\ Len(sink') = s + Len(q) /\ q \in Seq(Records(jb))
      /\ \A n \in s + 1 .. Len(sink') : n - s \in 1 .. Len(q) /\ sink'[n] = q[n - s]
      /\ \A n \in 1 .. Len(q) : n + s \in 1 .. Len(sink') /\ sink'[n + s] = q[n]
  BY SinkAfter, NewOfChunk DEF Commit
<1>2. seen' = seen \cup ({r.fact.id : r \in ToSet(q)} \ {None})
  BY DEF Mark
<1>. HIDE DEF q, s
<1>3. DOMAIN q = 1 .. Len(q)
  BY <1>1
<1>4. \A d : d \in seen' <=> d \in seen \/ (d # None /\ \E n \in 1 .. Len(q) : d = q[n].fact.id)
  BY <1>2, <1>3 DEF ToSet
<1>5. ASSUME NEW d \in seen', d \notin seen
      PROVE  d # None /\ \E n \in s + 1 .. Len(sink') : sink'[n].fact.id = d
  <2>1. PICK n \in 1 .. Len(q) : d = q[n].fact.id
    BY <1>4, <1>5
  <2>2. n + s \in s + 1 .. Len(sink') /\ sink'[n + s] = q[n]
    BY <1>1
  <2>. QED
    BY <1>4, <1>5, <2>1, <2>2
<1>6. \A n \in s + 1 .. Len(sink') : sink'[n].fact.id # None => sink'[n].fact.id \in seen'
  BY <1>1, <1>4
<1>. QED
  BY <1>4, <1>5, <1>6 DEF s

\* Each step keeps the marks those of the log.
LEMMA MarksNext ==
  ASSUME Base, Marks, [Next]_vars
  PROVE  Marks'
<1>. DEFINE s == Len(sink)
<1>1. CASE UNCHANGED <<jb, sink, service>>
  BY <1>1 DEF Marks, service
<1>2. CASE SendHttp /\ Commit(Chunk) /\ (Lands \/ LandsBare)
  <2>1. jb.transport = "http" /\ jb' = jb /\ ChunkBuildable /\ jb \in Cases
    BY <1>2, SendHttpDoes DEF Base
  <2>2. /\ \A n \in 1 .. s : sink[n].row # 0
        /\ unmarked \subseteq 1 .. s
        /\ \A n \in 1 .. s : n \notin unmarked /\ sink[n].fact.id # None => sink[n].fact.id \in seen
        /\ \A d \in seen : d # None /\ \E n \in 1 .. s : n \notin unmarked /\ sink[n].fact.id = d
    BY <2>1 DEF Marks
  <2>3. /\ s \in Nat /\ Len(sink') \in Nat /\ s <= Len(sink')
        /\ \A n \in 1 .. s : n \in 1 .. Len(sink') /\ sink'[n] = sink[n]
        /\ \A n \in 1 .. Len(sink') : n \in 1 .. s \/ n \in s + 1 .. Len(sink')
        /\ \A n \in s + 1 .. Len(sink') : \E i \in 1 .. Len(pending) : sink'[n] = Chunk[i]
    BY <1>2, <2>1, CommitAdds
  <2>4. \A i \in 1 .. Len(pending) : Chunk[i].row # 0
    BY <2>1, ChunkIsRows DEF RecordOf
  <2>. HIDE DEF s
  <2>5. \A n \in 1 .. Len(sink') : sink'[n].row # 0
    BY <2>2, <2>3, <2>4
  <2>6. CASE Lands
    <3>1. /\ seen \subseteq seen' /\ unmarked' = unmarked
          /\ \A n \in s + 1 .. Len(sink') :
               sink'[n].fact.id # None => sink'[n].fact.id \in seen'
          /\ \A d \in seen' : d \in seen \/
               (d # None /\ \E n \in s + 1 .. Len(sink') : sink'[n].fact.id = d)
      BY <2>1, <2>6, MarkAdds DEF Lands, s
    <3>2. \A n \in s + 1 .. Len(sink') : n \in 1 .. Len(sink') /\ n \notin unmarked
      BY <2>2, <2>3
    <3>3. \A n \in 1 .. Len(sink') : n \notin unmarked' /\ sink'[n].fact.id # None
                                       => sink'[n].fact.id \in seen'
      BY <2>2, <2>3, <3>1
    <3>4. ASSUME NEW d \in seen'
          PROVE  d # None /\ \E n \in 1 .. Len(sink') : n \notin unmarked' /\ sink'[n].fact.id = d
      <4>1. CASE d \in seen
        BY <2>2, <2>3, <3>1, <4>1
      <4>2. CASE d \notin seen
        BY <3>1, <3>2, <4>2
      <4>. QED
        BY <4>1, <4>2
    <3>5. unmarked' \subseteq 1 .. Len(sink')
      BY <2>2, <2>3, <3>1
    <3>. QED
      BY <2>5, <3>3, <3>4, <3>5 DEF Marks
  <2>7. CASE LandsBare
    <3>1. seen' = seen /\ unmarked' = unmarked \cup s + 1 .. Len(sink')
      BY <2>7 DEF LandsBare, s
    <3>2. unmarked' \subseteq 1 .. Len(sink')
      <4>1. \A n \in s + 1 .. Len(sink') : n \in 1 .. Len(sink')
        BY <2>3
      <4>. QED
        BY <2>2, <2>3, <3>1, <4>1
    <3>3. \A n \in 1 .. s : n \in unmarked' <=> n \in unmarked
      BY <2>3, <3>1
    <3>4. \A n \in 1 .. Len(sink') : n \notin unmarked' /\ sink'[n].fact.id # None
                                       => sink'[n].fact.id \in seen'
      BY <2>2, <2>3, <3>1
    <3>5. \A d \in seen' :
            d # None /\ \E n \in 1 .. Len(sink') : n \notin unmarked' /\ sink'[n].fact.id = d
      BY <2>2, <2>3, <3>1, <3>3
    <3>. QED
      BY <2>5, <3>2, <3>4, <3>5 DEF Marks
  <2>. QED
    BY <1>2, <2>6, <2>7
<1>3. CASE SendFile
  BY <1>3, SendFileDoes DEF Marks
<1>4. SendHttp => UNCHANGED <<jb, sink, service>> \/ (Commit(Chunk) /\ (Lands \/ LandsBare))
  BY SendHttpDoes DEF Lands, LandsBare
<1>. QED
  BY <1>1, <1>2, <1>3, <1>4, OnlySends

LandOnce ==
  jb.transport = "http" =>
    \A m, n \in 1 .. Len(sink) :
      m < n /\ sink[m].row = sink[n].row /\ sink[m].fact.id # None => m \in unmarked

\* Each step keeps a marked row from landing again.
LEMMA LandOnceNext ==
  ASSUME Base, Marks, LandOnce, [Next]_vars
  PROVE  LandOnce'
<1>. DEFINE s == Len(sink)
<1>1. CASE UNCHANGED <<jb, sink, service>>
  BY <1>1 DEF LandOnce, service
<1>2. CASE SendHttp /\ Commit(Chunk) /\ (Lands \/ LandsBare)
  <2>1. jb.transport = "http" /\ jb' = jb /\ ChunkBuildable /\ jb \in Cases
    BY <1>2, SendHttpDoes DEF Base
  <2>2. /\ s \in Nat /\ Len(sink') \in Nat
        /\ \A n \in 1 .. s : n \in 1 .. Len(sink') /\ sink'[n] = sink[n]
        /\ \A n \in 1 .. Len(sink') : n \in 1 .. s \/ n \in s + 1 .. Len(sink')
        /\ \A n \in s + 1 .. Len(sink') :
             \E i \in 1 .. Len(pending) : sink'[n] = Chunk[i] /\ IsNew(i)
        /\ \A m, n \in s + 1 .. Len(sink') : m # n => sink'[m].row # sink'[n].row
    BY <1>2, <2>1, CommitAdds
  <2>3. unmarked \subseteq unmarked'
    BY <1>2 DEF Lands, LandsBare
  <2>4. \A n \in 1 .. s : sink[n].fact.id = RowId(jb, sink[n].row)
    <3>1. \A n \in 1 .. s : sink[n] \in Records(jb) /\ sink[n].row # 0
      BY <2>1 DEF Base, Marks
    <3>. QED
      BY <2>1, <3>1, RecordIsRow
  <2>5. \A i \in 1 .. Len(pending) : Chunk[i].fact.id = RowId(jb, Chunk[i].row)
    BY ChunkIsRows DEF RecordOf
  <2>. SUFFICES ASSUME NEW m \in 1 .. Len(sink'), NEW n \in 1 .. Len(sink'),
                       m < n, sink'[m].row = sink'[n].row, sink'[m].fact.id # None
                PROVE  m \in unmarked'
    BY DEF LandOnce
  <2>. HIDE DEF s
  <2>6. CASE n \in 1 .. s
    <3>1. m \in 1 .. s
      BY <2>2, <2>6
    <3>2. s = Len(sink)
      BY DEF s
    <3>. QED
      BY <2>1, <2>2, <2>3, <2>6, <3>1, <3>2 DEF LandOnce
  <2>7. CASE m \in 1 .. s /\ n \in s + 1 .. Len(sink')
    <3>1. PICK i \in 1 .. Len(pending) : sink'[n] = Chunk[i] /\ IsNew(i)
      BY <2>2, <2>7
    <3>2. sink[m].fact.id = sink'[n].fact.id /\ sink'[n].fact.id \notin seen
      BY <2>2, <2>4, <2>5, <2>7, <3>1 DEF IsNew
    <3>3. m \in unmarked
      <4>1. sink[m].fact.id # None /\ sink[m].fact.id \notin seen
        BY <2>2, <2>7, <3>2
      <4>2. m \in 1 .. Len(sink)
        BY <2>7 DEF s
      <4>. QED
        BY <2>1, <4>1, <4>2 DEF Marks
    <3>. QED
      BY <2>3, <3>3
  <2>8. CASE m \in s + 1 .. Len(sink') /\ n \in s + 1 .. Len(sink')
    BY <2>2, <2>8
  <2>. QED
    BY <2>2, <2>6, <2>7, <2>8
<1>3. CASE SendFile
  BY <1>3, SendFileDoes DEF LandOnce
<1>4. SendHttp => UNCHANGED <<jb, sink, service>> \/ (Commit(Chunk) /\ (Lands \/ LandsBare))
  BY SendHttpDoes DEF Lands, LandsBare
<1>. QED
  BY <1>1, <1>2, <1>3, <1>4, OnlySends

\* Before the first run there are neither marks nor facts.
LEMMA MarksStart == Init => Marks /\ LandOnce
<1>1. Init => Len(sink) = 0
  BY DEF Init
<1>. QED
  BY <1>1 DEF Init, Marks, LandOnce

\* However often a job is run and its chunks are sent, wherever the handlers
\* break off and however the runs cut the file: the service has a row with an
\* id again only where it had broken off between the commit and the mark.
THEOREM RowsOnce == Spec => []RowsLandOnce
<1>1. Base /\ Marks /\ LandOnce /\ [Next]_vars => Marks' /\ LandOnce'
  BY MarksNext, LandOnceNext
<1>2. Base /\ LandOnce => RowsLandOnce
  <2>1. Base => DOMAIN sink = 1 .. Len(sink)
    BY DEF Base
  <2>2. SUFFICES ASSUME Base, LandOnce, jb.transport = "http",
                        NEW m \in DOMAIN sink, NEW n \in DOMAIN sink,
                        m < n, sink[m].row = sink[n].row, sink[m].fact.id # None
                 PROVE  m \in unmarked
    BY DEF RowsLandOnce
  <2>. QED
    BY <2>1, <2>2 DEF LandOnce
<1>. QED
  BY <1>1, <1>2, MarksStart, BaseStart, BaseNext, PTL DEF Spec

-----------------------------------------------------------------------------
(* A local file loses one row at most                                      *)

Torn == \E n \in 1 .. Len(sink) : sink[n].row = 0

\* The rows sent in this run are in the file, but for the first where a torn
\* line was; a line is torn only before the first chunk of a run.
FileRows ==
  jb.transport = "file" =>
    /\ phase \in {"running", "done"} =>
         \A p \in 1 .. Start : SendableOf(jb, p) /\ (Landed(p) \/ (p = 1 /\ Torn))
    /\ phase = "running" /\ torn => Start = 0
    /\ phase = "done" => Start = Count(jb)

\* What a whole chunk adds to the file.
LEMMA ChunkWritten ==
  ASSUME Base, ChunkBuildable, jb' = jb, sink' = sink \o Written(Chunk)
  PROVE  /\ \A p \in 1 .. Count(jb) : Landed(p) => Landed(p)'
         /\ Torn => Torn'
         /\ \A i \in 1 .. Len(pending) :
              IF torn /\ i = 1 THEN Torn' ELSE \A p : p = Start + i => Landed(p)'
<1>. DEFINE F == Records(jb)
            w == Written(Chunk)
            s == Len(sink)
<1>1. /\ sink \in Seq(F) /\ w \in Seq(F) /\ Len(w) = Len(pending) /\ Len(pending) \in Nat
      /\ \A i \in 1 .. Len(pending) :
           w[i] = IF torn /\ i = 1 THEN Garbage ELSE Chunk[i]
  BY ChunkIsRows, ChunkIsRecords, WrittenIsRecords DEF Base
<1>. HIDE DEF F, w
<1>2. /\ Len(sink) \in Nat /\ Len(sink') = s + Len(w)
      /\ \A n \in 1 .. s + Len(w) : sink'[n] = IF n <= s THEN sink[n] ELSE w[n - s]
  <2>1. sink' = sink \o w
    BY DEF w
  <2>2. Len(sink \o w) = Len(sink) + Len(w) /\ Len(sink) \in Nat
    BY <1>1
  <2>3. \A n \in 1 .. Len(sink) + Len(w) :
          (sink \o w)[n] = IF n <= Len(sink) THEN sink[n] ELSE w[n - Len(sink)]
    <3>1. sink \in Seq(F) /\ w \in Seq(F)
      BY <1>1
    <3>. QED
      BY <3>1, ConcatProperties
  <2>. QED
    BY <2>1, <2>2, <2>3
<1>3. \A n \in 1 .. s : n \in 1 .. Len(sink') /\ sink'[n] = sink[n]
  BY <1>1, <1>2
<1>4. ASSUME NEW i \in 1 .. Len(pending)
      PROVE  s + i \in 1 .. Len(sink') /\ sink'[s + i] = w[i]
  <2>1. s + i \in 1 .. s + Len(w) /\ ~(s + i <= s) /\ (s + i) - s = i
    BY <1>1, <1>2
  <2>. QED
    BY <1>2, <2>1
<1>5. \A i \in 1 .. Len(pending) : Chunk[i].row = Start + i
  BY ChunkIsRows DEF RecordOf
<1>6. ASSUME NEW i \in 1 .. Len(pending)
      PROVE  IF torn /\ i = 1 THEN Torn' ELSE \A p : p = Start + i => Landed(p)'
  <2>1. CASE torn /\ i = 1
    <3>1. s + i \in 1 .. Len(sink') /\ sink'[s + i] = Garbage
      BY <1>1, <1>4, <2>1
    <3>2. sink'[s + i].row = 0
      BY <3>1 DEF Garbage
    <3>. HIDE DEF s
    <3>3. Torn'
      BY <3>1, <3>2 DEF Torn
    <3>. QED
      BY <2>1, <3>3
  <2>2. CASE ~(torn /\ i = 1)
    <3>1. sink'[s + i].row = Start + i
      BY <1>1, <1>4, <1>5, <2>2
    <3>2. \E n \in 1 .. Len(sink') : sink'[n].row = Start + i
      BY <1>4, <3>1
    <3>3. \A p : p = Start + i => Landed(p)'
      BY <3>2 DEF Landed
    <3>. QED
      BY <2>2, <3>3
  <2>. QED
    BY <2>1, <2>2
<1>. QED
  BY <1>3, <1>6 DEF Landed, Torn

\* Each step keeps the rows a run has passed in the file, but for one per tear.
LEMMA FileRowsNext ==
  ASSUME Base, FileRows, [Next]_vars
  PROVE  FileRows'
<1>0. /\ Start \in Nat /\ read \in Nat /\ Len(pending) \in Nat /\ Start + Len(pending) = read
      /\ Count(jb) \in Nat /\ read <= Count(jb)
      /\ DOMAIN pending = 1 .. Len(pending) /\ (pending = <<>> <=> Len(pending) = 0)
  <2>1. Count(jb) \in Nat /\ read \in 0 .. Count(jb) /\ pending \in Seq(ToSet(StrippedRows(jb)))
    BY JobRowsAreRaw DEF Base
  <2>. QED
    BY <2>1, ChunkIsRows
<1>1. CASE Run
  <2>1. Start' = 0 /\ phase' # "done"
    <3>1. read' = 0 /\ phase' # "done"
      BY <1>1 DEF Run
    <3>2. Len(pending') = 0
      BY <1>1 DEF Run
    <3>3. read' - Len(pending') = 0
      BY <3>1, <3>2
    <3>. QED
      BY <3>1, <3>3 DEF Start
  <2>. QED
    BY <2>1 DEF FileRows
<1>2. CASE TakeRow
  <2>1. Base'
    BY BaseNext
  <2>2. Len(pending') = Len(pending) + 1
    BY <1>2 DEF TakeRow, Base
  <2>3. Start' = Start /\ UNCHANGED <<jb, phase, sink, torn>> /\ phase = "running"
    BY <1>0, <1>2, <2>2 DEF TakeRow, Start
  <2>. QED
    BY <2>3 DEF FileRows, Landed, Torn
<1>3. CASE SendFile
  <2>1. jb.transport = "file" /\ phase = "running" /\ jb' = jb /\ ChunkBuildable
    BY <1>3, SendFileDoes
  <2>2. CASE Broken
    BY <2>2 DEF Broken, FileRows
  <2>3. CASE Sent /\ sink' = sink \o Written(Chunk) /\ torn' = (torn /\ Chunk = <<>>)
    <3>1. Start' = read /\ phase' = "running"
      BY <1>0, <2>1, <2>3 DEF Sent, Start
    <3>2. ASSUME NEW p \in 1 .. read
          PROVE  SendableOf(jb, p) /\ (Landed(p)' \/ (p = 1 /\ Torn'))
      <4>1. CASE p \in 1 .. Start
        <5>1. SendableOf(jb, p) /\ (Landed(p) \/ (p = 1 /\ Torn))
          BY <2>1, <4>1 DEF FileRows
        <5>2. p \in 1 .. Count(jb)
          BY <1>0
        <5>. QED
          BY <2>1, <2>3, <5>1, <5>2, ChunkWritten
      <4>2. CASE p \notin 1 .. Start
        <5>. DEFINE i == p - Start
        <5>1. i \in 1 .. Len(pending) /\ Start + i = p
          BY <1>0, <4>2
        <5>2. IF torn /\ i = 1 THEN Torn' ELSE Landed(p)'
          BY <2>1, <2>3, <5>1, ChunkWritten
        <5>3. torn => i = p
          BY <1>0, <2>1 DEF FileRows
        <5>4. SendableOf(jb, p)
          BY <2>1, <5>1, ChunkIsRecords
        <5>. QED
          BY <5>1, <5>2, <5>3, <5>4
      <4>. QED
        BY <4>1, <4>2
    <3>3. torn' => Start' = 0
      <4>1. ASSUME torn' PROVE Start = 0 /\ Chunk = <<>>
        BY <2>1, <2>3, <4>1 DEF FileRows
      <4>2. Chunk = <<>> => Len(pending) = 0
        <5>1. Len(Chunk) = Len(pending)
          BY ChunkIsRows
        <5>. QED
          BY <5>1
      <4>. QED
        BY <1>0, <3>1, <4>1, <4>2
    <3>. QED
      BY <2>1, <3>1, <3>2, <3>3 DEF FileRows
  <2>. QED
    BY <1>3, <2>2, <2>3, SendFileDoes, FileAfter
<1>4. CASE SendHttp
  BY <1>4, SendHttpDoes DEF FileRows
<1>5. CASE Return
  <2>1. phase = "running" /\ phase' = "done" /\ UNCHANGED <<jb, sink, torn, read, pending>>
    BY <1>5 DEF Return
  <2>2. read = Count(jb) /\ Len(pending) = 0
    BY <1>0, <1>5 DEF Return, Due, Rows, JobRows, Count
  <2>. QED
    BY <1>0, <2>1, <2>2 DEF FileRows, Start, Landed, Torn
<1>6. CASE UNCHANGED vars
  BY <1>6 DEF vars, FileRows, Start, Landed, Torn
<1>7. CASE SendRaises
  BY <1>7 DEF SendRaises, Broken, FileRows
<1>. QED
  BY <1>1, <1>2, <1>3, <1>4, <1>5, <1>6, <1>7 DEF Next

\* However often the process is killed while it writes a local file, a job
\* that is done has every row in it as often as the file it loads, but perhaps
\* the first, which is there once less, and that only after a torn line.
THEOREM OneRowLostAtMost ==
  ASSUME IdsAreNotKeys
  PROVE  Spec => []OneRowPerTear
<1>1. Init => FileRows
  BY DEF Init, FileRows
<1>2. Base /\ FileRows /\ [Next]_vars => FileRows'
  BY FileRowsNext
<1>3. ASSUME Base, FileRows PROVE OneRowPerTear
  <2>. SUFFICES ASSUME jb.transport = "file", phase = "done", NEW i \in DOMAIN Raw
                PROVE  \/ InFile(FactOf(i)) <= InSink(FactOf(i))
                       \/ /\ HasGarbage /\ FactOf(i) = BuildRecord(Rows[1], Keys, Hard)
                          /\ InFile(FactOf(i)) <= InSink(FactOf(i)) + 1
    BY DEF OneRowPerTear
  <2>. DEFINE f == FactOf(i)
              S == {j \in DOMAIN Raw : FactOf(j) = f}
              N == 1 .. Count(jb)
  <2>0. jb \in Cases /\ DOMAIN sink = 1 .. Len(sink)
    BY <1>3 DEF Base
  <2>1. PICK from : SentFrom(jb, from)
    BY <2>0, RowsInOrder
  <2>2. \A p \in N : SendableOf(jb, p) /\ (Landed(p) \/ (p = 1 /\ Torn))
    BY <1>3 DEF FileRows
  <2>3. InFile(f) = Cardinality(S)
    BY DEF InFile
  <2>4. CASE \A p \in N : from[p] \in S => Landed(p)
    <3>1. S \in SUBSET {j \in DOMAIN Raw : FactOf(j) = f}
      OBVIOUS
    <3>. HIDE DEF S, f
    <3>2. Cardinality(S) <= InSink(f)
      BY <1>3, <2>1, <2>4, <3>1, LandedCounts
    <3>. QED
      BY <2>3, <3>2 DEF f
  <2>5. CASE \E p \in N : from[p] \in S /\ ~Landed(p)
    <3>1. 1 \in N /\ from[1] \in S /\ ~Landed(1) /\ Torn
      BY <2>2, <2>5
    <3>2. from[1] \in 1 .. Count(jb) /\ RecordOf(jb, 1).fact = FactOf(from[1])
      BY <1>3, <2>0, <2>1, <2>2, <3>1, FactsOfRows
    <3>3. f = BuildRecord(Rows[1], Keys, Hard)
      <4>1. RecordOf(jb, 1).fact = BuildRecord(Rows[1], Keys, Hard)
        BY DEF RecordOf, JobFact, JobRows, Rows, Keys, Hard
      <4>2. FactOf(from[1]) = f
        BY <3>1
      <4>. QED
        BY <3>2, <4>1, <4>2
    <3>4. HasGarbage
      BY <2>0, <3>1 DEF Torn, HasGarbage
    <3>. DEFINE rest == S \ {from[1]}
    <3>5. rest \in SUBSET {j \in DOMAIN Raw : FactOf(j) = f}
      OBVIOUS
    <3>6. \A p \in N : from[p] \in rest => Landed(p)
      <4>. HIDE DEF S
      <4>. QED
        BY <2>2
    <3>. HIDE DEF rest, f, S
    <3>7. /\ IsFiniteSet(rest) /\ Cardinality(rest) \in Nat /\ InSink(f) \in Nat
          /\ Cardinality(rest) <= InSink(f)
      BY <1>3, <2>1, <3>5, <3>6, LandedCounts
    <3>8. Cardinality(S) = Cardinality(rest) + 1
      <4>1. S = rest \cup {from[1]} /\ from[1] \notin rest
        BY <3>1 DEF rest
      <4>. QED
        BY <3>7, <4>1, FS_AddElement
    <3>. QED
      BY <2>3, <3>3, <3>4, <3>7, <3>8 DEF f
  <2>. QED
    BY <2>4, <2>5
<1>. QED
  BY <1>1, <1>2, <1>3, BaseStart, BaseNext, PTL DEF Spec

-----------------------------------------------------------------------------
(* Where a run cuts the file                                               *)

\* The bytes of the first rows.
Acc(c) == Sums(Sizes(JobRows(c)))

\* The chunk of the rows after a up to m has reached a limit of l.
FullAt(c, l, a, m) ==
  a < m /\ (m - a >= l.records \/ Acc(c)[m] - Acc(c)[a] >= l.bytes)

\* A chunk that begins after row a ends with row b.
IsNext(c, l, a, b) ==
  /\ a \in 0 .. Count(c) /\ b \in a .. Count(c) /\ (b = Count(c) \/ FullAt(c, l, a, b))
  /\ \A m \in a + 1 .. b - 1 : ~FullAt(c, l, a, m)

\* With the limits l, the first k chunks hold the first a rows.
IsCut(c, l, k, s) ==
  /\ s \in [0 .. k -> 0 .. Count(c)] /\ s[0] = 0
  /\ \A i \in 1 .. k : IsNext(c, l, s[i - 1], s[i])
CutAt(c, l, k, a) == \E s : IsCut(c, l, k, s) /\ s[k] = a

\* The sizes of the first rows of a file add up to numbers that rise with the rows.
LEMMA AccRises ==
  ASSUME NEW c \in Cases
  PROVE  /\ Sizes(JobRows(c)) \in Seq(Nat) /\ Len(Sizes(JobRows(c))) = Count(c)
         /\ Count(c) \in Nat
         /\ \A n \in 0 .. Count(c) : Acc(c)[n] \in Nat
         /\ \A n \in 1 .. Count(c) :
              Acc(c)[n] = Acc(c)[n - 1] + Cardinality(DOMAIN JobRows(c)[n])
         /\ \A m, n \in 0 .. Count(c) : m <= n => Acc(c)[m] <= Acc(c)[n]
<1>. DEFINE rows == JobRows(c)
            V == ToSet(StrippedRows(c))
            sizes == Sizes(rows)
<1>1. /\ Count(c) \in Nat /\ Count(c) = Len(rows) /\ rows \in Seq(V)
      /\ \A n \in 1 .. Count(c) : IsFiniteSet(DOMAIN rows[n])
  BY JobRowsAreRaw DEF Count
<1>2. DOMAIN rows = 1 .. Count(c)
  <2>. HIDE DEF rows, V
  <2>. QED
    BY <1>1
<1>3. sizes = [n \in 1 .. Count(c) |-> Cardinality(DOMAIN rows[n])]
  BY <1>2 DEF Sizes
<1>4. \A n \in 1 .. Count(c) : Cardinality(DOMAIN rows[n]) \in Nat
  BY <1>1, FS_CardinalityType
<1>. HIDE DEF rows
<1>5. sizes \in Seq(Nat) /\ Len(sizes) = Count(c)
      /\ \A n \in 1 .. Count(c) : sizes[n] = Cardinality(DOMAIN rows[n])
  <2>. HIDE DEF sizes
  <2>. QED
    BY <1>1, <1>3, <1>4
<1>6. Acc(c) = Sums(sizes)
  BY DEF Acc, rows
<1>. HIDE DEF sizes
<1>7. /\ \A n \in 0 .. Count(c) : Acc(c)[n] \in Nat
      /\ \A n \in 1 .. Count(c) : Acc(c)[n] = Acc(c)[n - 1] + sizes[n]
  BY <1>5, <1>6, SumsAreSums
<1>8. \A m, n \in 0 .. Count(c) : m <= n => Acc(c)[m] <= Acc(c)[n]
  BY <1>5, <1>6, SumsRise
<1>. QED
  BY <1>1, <1>5, <1>7, <1>8 DEF sizes, rows

\* With smaller limits a chunk that begins no later ends no later.
LEMMA NextIsSooner ==
  ASSUME NEW c \in Cases, NEW l \in Limits, NEW h \in Limits,
         l.records <= h.records, l.bytes <= h.bytes,
         NEW a, NEW b, NEW x, NEW y, a <= b, IsNext(c, l, a, x), IsNext(c, h, b, y)
  PROVE  x <= y
<1>1. /\ a \in Nat /\ b \in Nat /\ x \in Nat /\ y \in Nat /\ Count(c) \in Nat
      /\ a <= x /\ x <= Count(c) /\ b <= y /\ y <= Count(c) /\ a <= Count(c) /\ b <= Count(c)
  BY AccRises DEF IsNext
<1>2. SUFFICES ASSUME y < x PROVE FALSE
  BY <1>1
<1>3. FullAt(c, h, b, y)
  BY <1>1, <1>2 DEF IsNext
<1>4. FullAt(c, l, a, y)
  <2>1. /\ Acc(c)[a] <= Acc(c)[b] /\ Acc(c)[a] \in Nat /\ Acc(c)[b] \in Nat
        /\ Acc(c)[y] \in Nat
    BY <1>1, AccRises
  <2>2. l.records \in Nat /\ l.bytes \in Nat /\ h.records \in Nat /\ h.bytes \in Nat
    BY LimitsAssumption
  <2>. QED
    BY <1>1, <1>3, <2>1, <2>2 DEF FullAt
<1>5. y \in a + 1 .. x - 1
  BY <1>1, <1>2, <1>3 DEF FullAt
<1>. QED
  BY <1>4, <1>5 DEF IsNext

\* A run is cut in no chunks before its first row.
LEMMA CutStarts ==
  ASSUME NEW c \in Cases, NEW l
  PROVE  CutAt(c, l, 0, 0)
<1>. DEFINE s == [i \in 0 .. 0 |-> 0]
<1>1. IsCut(c, l, 0, s) /\ s[0] = 0
  <2>1. 0 \in 0 .. Count(c)
    BY AccRises
  <2>. QED
    BY <2>1 DEF IsCut
<1>. HIDE DEF s
<1>. QED
  BY <1>1 DEF CutAt

\* The cuts go on chunk by chunk.
LEMMA CutGoesOn ==
  ASSUME NEW c \in Cases, NEW l, NEW k \in Nat, NEW a, NEW b, CutAt(c, l, k, a), IsNext(c, l, a, b)
  PROVE  CutAt(c, l, k + 1, b)
<1>1. PICK s : IsCut(c, l, k, s) /\ s[k] = a
  BY DEF CutAt
<1>. DEFINE N == 0 .. Count(c)
            t == [i \in 0 .. k + 1 |-> IF i = k + 1 THEN b ELSE s[i]]
<1>2. b \in N
  BY AccRises DEF IsNext
<1>3. s \in [0 .. k -> N] /\ s[0] = 0 /\ \A i \in 1 .. k : IsNext(c, l, s[i - 1], s[i])
  BY <1>1 DEF IsCut
<1>. HIDE DEF N
<1>4. t \in [0 .. k + 1 -> N] /\ t[0] = 0 /\ t[k + 1] = b
  BY <1>2, <1>3
<1>5. ASSUME NEW i \in 1 .. k + 1
      PROVE  IsNext(c, l, t[i - 1], t[i])
  <2>1. CASE i = k + 1
    <3>1. i - 1 = k /\ t[k] = a
      BY <1>1, <2>1
    <3>. QED
      BY <1>4, <2>1, <3>1
  <2>2. CASE i # k + 1
    <3>1. i \in 1 .. k /\ i - 1 \in 0 .. k + 1 /\ i - 1 # k + 1 /\ i \in 0 .. k + 1
      BY <2>2
    <3>2. t[i - 1] = s[i - 1] /\ t[i] = s[i]
      BY <2>2, <3>1
    <3>. QED
      BY <1>3, <3>1, <3>2
  <2>. QED
    BY <2>1, <2>2
<1>. HIDE DEF t
<1>6. IsCut(c, l, k + 1, t)
  BY <1>4, <1>5 DEF IsCut, N
<1>. QED
  BY <1>4, <1>6 DEF CutAt

\* With smaller limits the same number of chunks holds no more rows.
LEMMA CutIsSooner ==
  ASSUME NEW c \in Cases, NEW l \in Limits, NEW h \in Limits,
         l.records <= h.records, l.bytes <= h.bytes,
         NEW k \in Nat, NEW a, NEW b, CutAt(c, l, k, a), CutAt(c, h, k, b)
  PROVE  a <= b
<1>1. PICK s : IsCut(c, l, k, s) /\ s[k] = a
  BY DEF CutAt
<1>2. PICK t : IsCut(c, h, k, t) /\ t[k] = b
  BY DEF CutAt
<1>. DEFINE T == {i \in Nat : i <= k => s[i] <= t[i]}
<1>3. 0 \in T
  BY <1>1, <1>2 DEF IsCut
<1>4. ASSUME NEW i \in Nat, i \in T
      PROVE  i + 1 \in T
  <2>1. SUFFICES ASSUME i + 1 <= k PROVE s[i + 1] <= t[i + 1]
    OBVIOUS
  <2>2. i + 1 \in 1 .. k /\ (i + 1) - 1 = i /\ s[i] <= t[i]
    BY <1>4, <2>1
  <2>3. IsNext(c, l, s[i], s[i + 1]) /\ IsNext(c, h, t[i], t[i + 1])
    BY <1>1, <1>2, <2>2 DEF IsCut
  <2>. QED
    BY <2>2, <2>3, NextIsSooner
<1>5. Nat \subseteq T
  <2>. HIDE DEF T
  <2>. QED
    BY <1>3, <1>4, NatsByInduction
<1>. QED
  BY <1>1, <1>2, <1>5

\* A cut in n chunks is one in fewer.
LEMMA CutBefore ==
  ASSUME NEW c \in Cases, NEW l, NEW n \in Nat, NEW b, CutAt(c, l, n, b), NEW k \in 0 .. n
  PROVE  \E a : CutAt(c, l, k, a) /\ a \in Nat /\ a <= b
<1>. DEFINE N == 0 .. Count(c)
<1>1. PICK s : IsCut(c, l, n, s) /\ s[n] = b
  BY DEF CutAt
<1>2. s \in [0 .. n -> N] /\ s[0] = 0 /\ \A i \in 1 .. n : IsNext(c, l, s[i - 1], s[i])
  BY <1>1 DEF IsCut
<1>3. \A i \in 0 .. n : s[i] \in Nat
  BY <1>2, AccRises
<1>. DEFINE T == {d \in Nat : k + d <= n => s[k] <= s[k + d]}
            t == [i \in 0 .. k |-> s[i]]
<1>4. 0 \in T
  BY <1>3
<1>5. ASSUME NEW d \in Nat, d \in T
      PROVE  d + 1 \in T
  <2>1. SUFFICES ASSUME k + (d + 1) <= n PROVE s[k] <= s[k + (d + 1)]
    OBVIOUS
  <2>2. /\ k + (d + 1) \in 1 .. n /\ (k + (d + 1)) - 1 = k + d /\ k + d \in 0 .. n
        /\ k \in 0 .. n /\ k + (d + 1) \in 0 .. n /\ s[k] <= s[k + d]
    BY <1>5, <2>1
  <2>3. s[k + d] <= s[k + (d + 1)]
    <3>1. IsNext(c, l, s[k + d], s[k + (d + 1)])
      BY <1>2, <2>2
    <3>. QED
      BY <1>3, <2>2, <3>1, AccRises DEF IsNext
  <2>4. s[k] \in Nat /\ s[k + d] \in Nat /\ s[k + (d + 1)] \in Nat
    BY <1>3, <2>2
  <2>. QED
    BY <2>2, <2>3, <2>4
<1>6. n - k \in T
  <2>1. Nat \subseteq T
    <3>. HIDE DEF T
    <3>. QED
      BY <1>4, <1>5, NatsByInduction
  <2>. HIDE DEF T
  <2>. QED
    BY <2>1
<1>7. s[k] <= b /\ s[k] \in Nat
  <2>1. k + (n - k) = n
    OBVIOUS
  <2>. QED
    BY <1>1, <1>3, <1>6, <2>1
<1>8. t \in [0 .. k -> N] /\ t[0] = 0 /\ t[k] = s[k]
  <2>. HIDE DEF N
  <2>. QED
    BY <1>2
<1>9. ASSUME NEW i \in 1 .. k
      PROVE  IsNext(c, l, t[i - 1], t[i])
  <2>1. i \in 1 .. n /\ i - 1 \in 0 .. k /\ i \in 0 .. k
    OBVIOUS
  <2>. QED
    BY <1>2, <2>1
<1>. HIDE DEF t
<1>. QED
  BY <1>7, <1>8, <1>9 DEF CutAt, IsCut

-----------------------------------------------------------------------------
(* Every row reaches the log                                               *)

\* The run cuts the file by its limits, and knows the bytes of its chunk.
RunCuts ==
  /\ Bytes(pending) = Acc(jb)[read] - Acc(jb)[Start]
  /\ phase = "running" =>
       /\ CutAt(jb, Last(runs), seq, Start)
       /\ \A m \in Start + 1 .. read - 1 : ~FullAt(jb, Last(runs), Start, m)
  /\ phase = "done" => Start = Count(jb)

\* The service has the first a rows: those without an id in its log, and the
\* ids of the others, which may have come with other rows, among its marks.
Known(p) == IF RowId(jb, p) = None THEN Landed(p) ELSE RowId(jb, p) \in seen
UpTo(a) == \A p \in 1 .. a : Known(p)

\* The service has what was sent in this run, and what a recorded number of a
\* chunk held in one of the runs, with all before it.
HttpRows ==
  jb.transport = "http" /\ ~Grown =>
    /\ phase \in {"running", "done"} => UpTo(Start)
    /\ \A k \in ledger : \E n \in 1 .. Len(runs) : \E a :
         CutAt(jb, runs[n], k + 1, a) /\ UpTo(a)

\* Numbers in short: where the run is.
LEMMA Places ==
  ASSUME Base
  PROVE  /\ jb \in Cases /\ Start \in Nat /\ read \in Nat /\ Len(pending) \in Nat
         /\ Start + Len(pending) = read /\ Count(jb) \in Nat /\ read <= Count(jb)
         /\ (pending = <<>> <=> Len(pending) = 0) /\ Len(Rows) = Count(jb) /\ seq \in Nat
         /\ phase = "running" => Last(runs) \in Limits /\ Len(runs) \in 1 .. Len(runs)
<1>1. /\ Count(jb) \in Nat /\ read \in 0 .. Count(jb) /\ jb \in Cases /\ seq \in Nat
      /\ pending \in Seq(ToSet(StrippedRows(jb)))
      /\ runs \in Seq(Limits) /\ (phase = "running" => Len(runs) > 0)
  BY JobRowsAreRaw DEF Base
<1>2. pending = <<>> <=> Len(pending) = 0
  <2>. DEFINE V == ToSet(StrippedRows(jb))
  <2>1. pending \in Seq(V)
    BY <1>1
  <2>. HIDE DEF V
  <2>. QED
    BY <2>1
<1>3. Len(Rows) = Count(jb)
  BY DEF Rows, Count, JobRows
<1>4. phase = "running" => Last(runs) \in Limits /\ Len(runs) \in 1 .. Len(runs)
  BY <1>1 DEF Last
<1>. QED
  BY <1>1, <1>2, <1>3, <1>4, ChunkIsRows

\* A chunk that is due ends where the limits of the run cut the file.
LEMMA DueIsCut ==
  ASSUME Base, RunCuts, phase = "running", Due
  PROVE  /\ IsNext(jb, Last(runs), Start, read)
         /\ CutAt(jb, Last(runs), seq + 1, read)
<1>1. read = Count(jb) \/ FullAt(jb, Last(runs), Start, read)
  <2>1. CASE read = Count(jb)
    BY <2>1
  <2>2. CASE read # Count(jb)
    <3>1. Full
      BY <2>2, Places DEF Due
    <3>2. read - Start = Len(pending) /\ Start < read
      BY <3>1, Places DEF Full
    <3>. QED
      BY <3>1, <3>2 DEF Full, FullAt, RunCuts
  <2>. QED
    BY <2>1, <2>2
<1>2. Start \in 0 .. Count(jb) /\ read \in Start .. Count(jb)
  BY Places
<1>3. IsNext(jb, Last(runs), Start, read)
  BY <1>1, <1>2 DEF IsNext, RunCuts
<1>4. CutAt(jb, Last(runs), seq, Start) /\ seq \in Nat /\ jb \in Cases
  BY Places DEF RunCuts
<1>. QED
  BY <1>3, <1>4, CutGoesOn

\* Each step keeps the chunks of a run those that its limits cut.
LEMMA RunCutsNext ==
  ASSUME Base, RunCuts, [Next]_vars
  PROVE  RunCuts'
<1>. DEFINE NoBytes == Bytes(<<>>) = 0 /\ \A n \in 0 .. Count(jb) : Acc(jb)[n] - Acc(jb)[n] = 0
<1>1. NoBytes
  <2>1. Sizes(<<>>) = <<>> /\ <<>> \in Seq(Nat) /\ Len(<<>>) = 0
    BY DEF Sizes
  <2>2. Sums(<<>>)[0] = 0
    BY <2>1, SumsAreSums
  <2>3. Bytes(<<>>) = 0
    BY <2>1, <2>2 DEF Bytes, Total
  <2>4. \A n \in 0 .. Count(jb) : Acc(jb)[n] - Acc(jb)[n] = 0
    BY Places, AccRises
  <2>. QED
    BY <2>3, <2>4
<1>. HIDE DEF NoBytes
<1>2. CASE Run
  <2>1. read' = 0 /\ phase' # "done" /\ seq' = 0 /\ jb' = jb
    BY <1>2 DEF Run
  <2>2. pending' = <<>>
    BY <1>2 DEF Run
  <2>3. Len(pending') = 0
    BY <1>2 DEF Run
  <2>4. read' - Len(pending') = 0
    BY <2>1, <2>3
  <2>5. Start' = 0
    BY <2>4 DEF Start
  <2>6. CutAt(jb', Last(runs'), seq', Start')
    BY <2>1, <2>5, Places, CutStarts
  <2>7. Bytes(pending') = Acc(jb')[read'] - Acc(jb')[Start']
    <3>1. 0 \in 0 .. Count(jb)
      BY Places
    <3>. QED
      BY <1>1, <2>1, <2>2, <2>5, <3>1 DEF NoBytes
  <2>8. Start' + 1 .. read' - 1 = {}
    BY <2>1, <2>5
  <2>. QED
    BY <2>1, <2>6, <2>7, <2>8 DEF RunCuts
<1>3. CASE TakeRow
  <2>. DEFINE row == Rows[read + 1]
              V == ToSet(StrippedRows(jb))
  <2>1. /\ phase = "running" /\ ~Full /\ read < Count(jb) /\ read' = read + 1
        /\ pending' = Append(pending, row) /\ UNCHANGED <<jb, phase, runs, seq>>
    BY <1>3, Places DEF TakeRow
  <2>2. Base'
    BY BaseNext
  <2>3. /\ pending \in Seq(V) /\ row = JobRows(jb)[read + 1] /\ read + 1 \in 1 .. Count(jb)
        /\ row \in V /\ (read + 1) - 1 = read
    <3>1. JobRows(jb) \in Seq(V) /\ row = JobRows(jb)[read + 1]
      BY Places, JobRowsAreRaw DEF Rows, JobRows
    <3>2. read + 1 \in 1 .. Count(jb) /\ (read + 1) - 1 = read
      BY <2>1, Places
    <3>3. pending \in Seq(V)
      BY DEF Base
    <3>. HIDE DEF V, row
    <3>4. row \in V
      BY <3>1, <3>2 DEF Count
    <3>. QED
      BY <3>1, <3>2, <3>3, <3>4
  <2>4. Sizes(pending) \in Seq(Nat)
    <3>1. \A i \in 1 .. Len(pending) : IsFiniteSet(DOMAIN pending[i])
      <4>1. \A i \in 1 .. Len(pending) : Start + i \in 1 .. Count(jb) /\ pending[i] = JobRows(jb)[Start + i]
        BY Places DEF Base
      <4>. QED
        BY <4>1, Places, JobRowsAreRaw
    <3>2. \A i \in 1 .. Len(pending) : Cardinality(DOMAIN pending[i]) \in Nat
      BY <3>1, FS_CardinalityType
    <3>3. Sizes(pending) = [i \in 1 .. Len(pending) |-> Cardinality(DOMAIN pending[i])]
      BY ChunkIsRows DEF Sizes
    <3>4. Len(pending) \in Nat
      BY Places
    <3>. QED
      BY <3>2, <3>3, <3>4
  <2>5. Sizes(pending') = Append(Sizes(pending), Cardinality(DOMAIN row))
    <3>. DEFINE q == Append(pending, row)
                k == Len(pending)
    <3>. HIDE DEF V, row
    <3>1. /\ q \in Seq(V) /\ Len(q) = k + 1 /\ k \in Nat
          /\ (\A i \in 1 .. k : q[i] = pending[i]) /\ q[k + 1] = row
      BY <2>3, AppendProperties
    <3>2. DOMAIN q = 1 .. k + 1 /\ DOMAIN pending = 1 .. k
      BY <2>3, <3>1
    <3>. HIDE DEF q, k
    <3>3. Sizes(q) = [i \in 1 .. k + 1 |-> Cardinality(DOMAIN q[i])]
      BY <3>2 DEF Sizes
    <3>4. Sizes(pending) = [i \in 1 .. k |-> Cardinality(DOMAIN pending[i])]
      BY <3>2 DEF Sizes
    <3>. DEFINE z == Append(Sizes(pending), Cardinality(DOMAIN row))
    <3>5. Len(Sizes(pending)) = k
      BY <2>4, <3>1, <3>4
    <3>6. z = [i \in 1 .. k + 1 |-> IF i = k + 1 THEN Cardinality(DOMAIN row)
                                    ELSE Sizes(pending)[i]]
      BY <2>4, <3>1, <3>5
    <3>7. ASSUME NEW i \in 1 .. k + 1
          PROVE  Cardinality(DOMAIN q[i]) =
                   IF i = k + 1 THEN Cardinality(DOMAIN row) ELSE Sizes(pending)[i]
      <4>1. CASE i = k + 1
        BY <3>1, <4>1
      <4>2. CASE i # k + 1
        <5>1. i \in 1 .. k
          BY <3>1, <4>2
        <5>. QED
          BY <3>1, <3>4, <4>2, <5>1
      <4>. QED
        BY <4>1, <4>2
    <3>. HIDE DEF z
    <3>8. Sizes(q) = z
      BY <3>3, <3>6, <3>7
    <3>. QED
      BY <2>1, <3>8 DEF q, z
  <2>6. Bytes(pending') = Bytes(pending) + Cardinality(DOMAIN row) /\ Bytes(pending) \in Nat
        /\ Cardinality(DOMAIN row) \in Nat
    <3>1. Cardinality(DOMAIN row) \in Nat
      BY <2>3, Places, JobRowsAreRaw, FS_CardinalityType
    <3>. HIDE DEF row
    <3>. QED
      BY <2>4, <2>5, <3>1, TotalOfAppend DEF Bytes
  <2>7. Start' = Start
    <3>1. Len(pending') = Len(pending) + 1
      BY <2>1 DEF Base
    <3>2. read' - Len(pending') = read - Len(pending)
      BY <2>1, <3>1, Places
    <3>. QED
      BY <3>2 DEF Start
  <2>8. Bytes(pending') = Acc(jb)[read + 1] - Acc(jb)[Start]
    <3>1. /\ Acc(jb)[read + 1] = Acc(jb)[read] + Cardinality(DOMAIN row)
          /\ Acc(jb)[read] \in Nat /\ Acc(jb)[Start] \in Nat
      <4>1. jb \in Cases /\ read \in 0 .. Count(jb) /\ Start \in 0 .. Count(jb)
        BY Places
      <4>. QED
        BY <2>3, <4>1, AccRises
    <3>2. Bytes(pending) = Acc(jb)[read] - Acc(jb)[Start]
      BY DEF RunCuts
    <3>. HIDE DEF row
    <3>. QED
      BY <2>6, <3>1, <3>2
  <2>9. ASSUME NEW m \in Start + 1 .. read
        PROVE  ~FullAt(jb, Last(runs), Start, m)
    <3>1. CASE m # read
      <4>1. m \in Start + 1 .. read - 1
        BY <3>1, Places
      <4>. QED
        BY <2>1, <4>1 DEF RunCuts
    <3>2. CASE m = read
      <4>1. pending # <<>> /\ read - Start = Len(pending)
        BY <3>2, Places
      <4>. QED
        BY <2>1, <3>2, <4>1 DEF Full, FullAt, RunCuts
    <3>. QED
      BY <3>1, <3>2
  <2>10. Start + 1 .. (read + 1) - 1 = Start + 1 .. read
    BY Places
  <2>. HIDE DEF row
  <2>. QED
    BY <2>1, <2>7, <2>8, <2>9, <2>10 DEF RunCuts
<1>4. ASSUME SendFile \/ SendHttp \/ SendRaises PROVE RunCuts'
  <2>1. phase = "running" /\ Due /\ jb' = jb /\ runs' = runs /\ (Sent \/ Broken)
    BY <1>4, SendFileDoes, SendHttpDoes DEF AppendLines, SendRaises
  <2>2. CASE Broken
    BY <2>1, <2>2 DEF Broken, RunCuts, Start
  <2>3. CASE Sent
    <3>1. phase' = "running" /\ read' = read /\ pending' = <<>> /\ seq' = seq + 1
      BY <2>1, <2>3 DEF Sent
    <3>2. Len(pending') = 0
      BY <2>3 DEF Sent
    <3>3. read' - Len(pending') = read
      BY <2>3, <3>2, Places DEF Sent
    <3>4. Start' = read
      BY <3>3 DEF Start
    <3>5. read + 1 .. read - 1 = {} /\ read \in 0 .. Count(jb)
      BY Places
    <3>6. Bytes(pending') = Acc(jb')[read'] - Acc(jb')[Start']
      BY <1>1, <2>1, <3>1, <3>4, <3>5 DEF NoBytes
    <3>7. CutAt(jb', Last(runs'), seq', Start')
      BY <2>1, <3>1, <3>4, DueIsCut
    <3>. QED
      BY <3>1, <3>4, <3>5, <3>6, <3>7 DEF RunCuts
  <2>. QED
    BY <2>1, <2>2, <2>3
<1>5. CASE Return
  <2>1. phase' = "done" /\ UNCHANGED <<jb, read, pending, runs, seq>>
    BY <1>5 DEF Return
  <2>2. read = Count(jb) /\ Len(pending) = 0
    BY <1>5, Places DEF Return, Due
  <2>3. Start' = Start /\ Start = Count(jb)
    BY <2>1, <2>2, Places DEF Start
  <2>. QED
    BY <2>1, <2>3 DEF RunCuts
<1>6. CASE UNCHANGED vars
  BY <1>6 DEF vars, RunCuts, Start
<1>. QED
  BY <1>2, <1>3, <1>4, <1>5, <1>6 DEF Next

\* The service loses nothing.
LEMMA LogGrows ==
  ASSUME Base, UNCHANGED jb, sink' = sink \/ (ChunkBuildable /\ Commit(Chunk)), seen \subseteq seen'
  PROVE  /\ \A p : Known(p) => Known(p)'
         /\ \A a : UpTo(a) => UpTo(a)'
<1>1. \A n \in 1 .. Len(sink) : n \in 1 .. Len(sink') /\ sink'[n] = sink[n]
  BY CommitAdds
<1>2. \A p : Known(p) => Known(p)'
  BY <1>1 DEF Known, Landed
<1>. QED
  BY <1>2 DEF UpTo

\* A chunk that lands is known from then on.
LEMMA ChunkLands ==
  ASSUME Base, UNCHANGED jb, ChunkBuildable, Lands, UpTo(Start)
  PROVE  \A a : a = read => UpTo(a)'
<1>. SUFFICES ASSUME NEW p \in 1 .. read PROVE Known(p)'
  BY DEF UpTo
<1>1. Commit(Chunk) /\ Mark(Chunk)
  BY DEF Lands
<1>2. CASE p \in 1 .. Start
  <2>1. Known(p) /\ seen \subseteq seen'
    BY <1>1, <1>2, MarkAdds DEF UpTo
  <2>. QED
    BY <1>1, <2>1, LogGrows
<1>3. CASE p \notin 1 .. Start
  <2>. DEFINE i == p - Start
  <2>1. i \in 1 .. Len(pending) /\ Start + i = p
    BY <1>3, Places
  <2>2. Chunk[i].fact.id = RowId(jb, p) /\ Chunk[i].row = p
    BY <2>1, ChunkIsRows DEF RecordOf
  <2>. HIDE DEF i
  <2>3. CASE IsNew(i)
    <3>1. PICK n \in Len(sink) + 1 .. Len(sink') : sink'[n] = Chunk[i]
      BY <1>1, <2>1, <2>3, CommitAdds
    <3>2. n \in 1 .. Len(sink') /\ sink'[n].row = p
      <4>1. Len(sink) \in Nat /\ Len(sink') \in Nat
        BY <1>1, CommitAdds
      <4>. QED
        BY <2>2, <3>1, <4>1
    <3>3. RowId(jb, p) # None => RowId(jb, p) \in seen'
      BY <1>1, <2>2, <3>1, MarkAdds
    <3>. QED
      BY <3>2, <3>3 DEF Known, Landed
  <2>4. CASE ~IsNew(i)
    <3>1. RowId(jb, p) # None /\ RowId(jb, p) \in seen /\ seen \subseteq seen'
      BY <1>1, <2>2, <2>4, MarkAdds DEF IsNew
    <3>. QED
      BY <3>1 DEF Known
  <2>. QED
    BY <2>3, <2>4
<1>. QED
  BY <1>2, <1>3

\* Once chunks have grown they have.
LEMMA GrownStays ==
  ASSUME Base, Run, ~Grown'
  PROVE  ~Grown
<1>1. PICK l \in Limits : runs' = Append(runs, l)
  BY DEF Run
<1>2. runs \in Seq(Limits)
  BY DEF Base
<1>3. /\ Len(runs) \in Nat /\ Len(runs') = Len(runs) + 1
      /\ DOMAIN runs = 1 .. Len(runs) /\ DOMAIN runs' = 1 .. Len(runs')
      /\ \A n \in 1 .. Len(runs) : n \in 1 .. Len(runs') /\ runs'[n] = runs[n]
  BY <1>1, <1>2
<1>4. ASSUME NEW n \in 1 .. Len(runs), NEW m \in 1 .. n,
             runs[m].records < runs[n].records \/ runs[m].bytes < runs[n].bytes
      PROVE  FALSE
  <2>1. /\ n \in DOMAIN runs' /\ runs'[n] = runs[n] /\ runs'[m] = runs[m]
    BY <1>3
  <2>. QED
    BY <1>4, <2>1 DEF Grown
<1>. QED
  BY <1>3, <1>4 DEF Grown

\* If no chunks have grown, a chunk ends no later than one that had its seq in
\* this run or in a run before.
LEMMA KnownIsSooner ==
  ASSUME Base, RunCuts, ~Grown, phase = "running", Due,
         NEW n \in 1 .. Len(runs), NEW a, CutAt(jb, runs[n], seq + 1, a)
  PROVE  read <= a
<1>1. CutAt(jb, Last(runs), seq + 1, read) /\ Len(runs) \in 1 .. Len(runs)
      /\ Last(runs) = runs[Len(runs)]
  BY DueIsCut, Places DEF Last
<1>2. Last(runs).records <= runs[n].records /\ Last(runs).bytes <= runs[n].bytes
  <2>1. runs \in Seq(Limits) /\ Last(runs) \in Limits /\ runs[n] \in Limits
    BY Places DEF Base
  <2>2. ~(runs[n].records < Last(runs).records \/ runs[n].bytes < Last(runs).bytes)
    <3>1. Len(runs) \in DOMAIN runs /\ n \in 1 .. Len(runs)
      BY <1>1, <2>1
    <3>. QED
      BY <1>1, <3>1 DEF Grown
  <2>. QED
    BY <2>1, <2>2, LimitsAssumption
<1>3. runs[n] \in Limits /\ Last(runs) \in Limits /\ seq + 1 \in Nat
  BY Places DEF Base
<1>. QED
  BY <1>1, <1>2, <1>3, Places, CutIsSooner

\* Each step keeps the rows behind the seqs the service knows in its log.
LEMMA HttpRowsNext ==
  ASSUME Base, RunCuts, HttpRows, [Next]_vars
  PROVE  HttpRows'
<1>1. CASE Run
  <2>. SUFFICES ASSUME jb.transport = "http", ~Grown'
                PROVE  /\ UpTo(Start)'
                       /\ \A k \in ledger : \E n \in 1 .. Len(runs') : \E a :
                            CutAt(jb, runs'[n], k + 1, a) /\ UpTo(a)'
    BY <1>1 DEF HttpRows, Run, service
  <2>1. PICK l \in Limits : runs' = Append(runs, l)
    BY <1>1 DEF Run
  <2>2. runs \in Seq(Limits)
    BY DEF Base
  <2>3. /\ Len(runs) \in Nat /\ Len(runs') = Len(runs) + 1
        /\ DOMAIN runs = 1 .. Len(runs) /\ DOMAIN runs' = 1 .. Len(runs')
        /\ \A n \in 1 .. Len(runs) : n \in 1 .. Len(runs') /\ runs'[n] = runs[n]
    BY <2>1, <2>2
  <2>4. ~Grown
    BY <1>1, GrownStays
  <2>5. \A a : UpTo(a) => UpTo(a)'
    BY <1>1 DEF Run, UpTo, Known, Landed, service
  <2>6. Start' = 0
    <3>1. read' = 0
      BY <1>1 DEF Run
    <3>2. Len(pending') = 0
      BY <1>1 DEF Run
    <3>3. read' - Len(pending') = 0
      BY <3>1, <3>2
    <3>. QED
      BY <3>3 DEF Start
  <2>7. UpTo(Start)'
    BY <2>6 DEF UpTo
  <2>8. ASSUME NEW k \in ledger
        PROVE  \E n \in 1 .. Len(runs') : \E a : CutAt(jb, runs'[n], k + 1, a) /\ UpTo(a)'
    <3>1. PICK n \in 1 .. Len(runs) : \E a : CutAt(jb, runs[n], k + 1, a) /\ UpTo(a)
      BY <2>4 DEF HttpRows
    <3>2. PICK a : CutAt(jb, runs[n], k + 1, a) /\ UpTo(a)
      BY <3>1
    <3>. QED
      BY <2>3, <2>5, <3>1, <3>2
  <2>. QED
    BY <2>7, <2>8
<1>2. CASE TakeRow
  <2>1. Len(pending') = Len(pending) + 1 /\ read' = read + 1
    BY <1>2 DEF TakeRow, Base
  <2>2. read' - Len(pending') = read - Len(pending)
    BY <2>1, Places
  <2>3. Start' = Start /\ UNCHANGED <<jb, phase, runs, sink, ledger, seen>>
    BY <1>2, <2>2 DEF TakeRow, Start, service
  <2>. QED
    BY <2>3 DEF HttpRows, UpTo, Known, Landed, Grown
<1>3. CASE SendFile
  BY <1>3, SendFileDoes DEF HttpRows
<1>4. CASE SendHttp
  <2>. SUFFICES ASSUME ~Grown
                PROVE  /\ phase' \in {"running", "done"} => UpTo(Start)'
                       /\ \A k \in ledger' : \E n \in 1 .. Len(runs) : \E a :
                            CutAt(jb, runs[n], k + 1, a) /\ UpTo(a)'
    BY <1>4, SendHttpDoes DEF HttpRows, Grown
  <2>1. /\ jb.transport = "http" /\ phase = "running" /\ Due /\ UNCHANGED <<jb, runs>>
        /\ ChunkBuildable
        /\ \/ UNCHANGED <<sink, service>> /\ (Broken \/ (seq \in ledger /\ Sent))
           \/ Lands /\ ledger' = ledger \cup {seq} /\ (Sent \/ Broken)
           \/ Lands /\ ledger' = ledger /\ Broken
           \/ LandsBare /\ Broken
    BY <1>4, SendHttpDoes
  <2>2. /\ UpTo(Start)
        /\ \A k \in ledger : \E n \in 1 .. Len(runs) : \E a :
             CutAt(jb, runs[n], k + 1, a) /\ UpTo(a)
    BY <2>1 DEF HttpRows
  <2>3. \A a : UpTo(a) => UpTo(a)'
    <3>1. (sink' = sink \/ Commit(Chunk)) /\ seen \subseteq seen'
      BY <2>1, MarkAdds DEF Lands, LandsBare, service
    <3>. QED
      BY <2>1, <3>1, LogGrows
  <2>4. \A k \in ledger : \E n \in 1 .. Len(runs) : \E a :
          CutAt(jb, runs[n], k + 1, a) /\ UpTo(a)'
    BY <2>2, <2>3
  <2>5. CutAt(jb, Last(runs), seq + 1, read) /\ Len(runs) \in 1 .. Len(runs)
        /\ Last(runs) = runs[Len(runs)]
    BY <2>1, DueIsCut, Places DEF Last
  <2>7. Sent => Start' = read
    <3>1. SUFFICES ASSUME Sent PROVE Start' = read
      OBVIOUS
    <3>2. Len(pending') = 0 /\ read' = read
      BY <3>1 DEF Sent
    <3>3. read' - Len(pending') = read
      BY <3>2, Places
    <3>. QED
      BY <3>3 DEF Start
  <2>8. Broken => phase' \notin {"running", "done"}
    BY DEF Broken
  <2>10. ASSUME \A a : a = read => UpTo(a)', Sent \/ Broken
         PROVE  phase' \in {"running", "done"} => UpTo(Start)'
    <3>1. CASE Sent
      BY <2>7, <2>10, <3>1 DEF UpTo
    <3>2. CASE Broken
      BY <2>8, <3>2
    <3>. QED
      BY <2>10, <3>1, <3>2
  <2>11. CASE UNCHANGED <<sink, service>> /\ seq \in ledger /\ Sent
    <3>1. PICK n \in 1 .. Len(runs) : \E a : CutAt(jb, runs[n], seq + 1, a) /\ UpTo(a)
      BY <2>2, <2>11
    <3>2. PICK a : CutAt(jb, runs[n], seq + 1, a) /\ UpTo(a)
      BY <3>1
    <3>3. read <= a
      BY <2>1, <3>2, KnownIsSooner
    <3>4. UpTo(read)
      <4>1. a \in Nat
        <5>1. PICK s : IsCut(jb, runs[n], seq + 1, s) /\ s[seq + 1] = a
          BY <3>2 DEF CutAt
        <5>2. seq + 1 \in 0 .. seq + 1
          BY Places
        <5>. QED
          BY <5>1, <5>2 DEF IsCut
      <4>2. \A p \in 1 .. read : p \in 1 .. a
        BY <3>3, <4>1, Places
      <4>. QED
        BY <3>2, <4>2 DEF UpTo
    <3>5. \A b : b = read => UpTo(b)'
      BY <2>3, <3>4
    <3>. QED
      BY <2>4, <2>10, <2>11, <3>5 DEF service
  <2>12. CASE UNCHANGED <<sink, service>> /\ Broken
    BY <2>4, <2>8, <2>12 DEF service
  <2>13. CASE Lands /\ (ledger' = ledger \/ ledger' = ledger \cup {seq}) /\ (Sent \/ Broken)
    <3>1. \A a : a = read => UpTo(a)'
      BY <2>1, <2>2, <2>13, ChunkLands
    <3>2. \A k \in ledger' : \E n \in 1 .. Len(runs) : \E a :
            CutAt(jb, runs[n], k + 1, a) /\ UpTo(a)'
      BY <2>4, <2>5, <2>13, <3>1
    <3>. QED
      BY <2>10, <2>13, <3>1, <3>2
  <2>14. CASE LandsBare /\ Broken
    <3>1. phase' \in {"running", "done"} => UpTo(Start)'
      BY <2>8, <2>14
    <3>2. ledger' = ledger
      BY <2>14 DEF LandsBare
    <3>. QED
      BY <2>4, <3>1, <3>2
  <2>. QED
    BY <2>1, <2>11, <2>12, <2>13, <2>14
<1>5. CASE Return
  BY <1>5 DEF Return, HttpRows, UpTo, Known, Landed, Grown, Start, service
<1>6. CASE UNCHANGED vars
  BY <1>6 DEF vars, HttpRows, UpTo, Known, Landed, Grown, Start
<1>7. CASE SendRaises
  BY <1>7 DEF SendRaises, Broken, HttpRows, UpTo, Known, Landed, Grown, service
<1>. QED
  BY <1>1, <1>2, <1>3, <1>4, <1>5, <1>6, <1>7 DEF Next

\* Before the first run nothing is cut.
LEMMA CutsStart ==
  ASSUME Init
  PROVE  RunCuts /\ HttpRows
<1>1. Len(pending) = 0 /\ read = 0
  BY DEF Init
<1>2. Start = 0
  BY <1>1 DEF Start
<1>3. Bytes(pending) = 0
  <2>1. Sizes(<<>>) = <<>> /\ <<>> \in Seq(Nat) /\ Len(<<>>) = 0
    BY DEF Sizes
  <2>2. Sums(<<>>)[0] = 0
    BY <2>1, SumsAreSums
  <2>3. Bytes(<<>>) = 0
    BY <2>1, <2>2 DEF Bytes, Total
  <2>. QED
    BY <2>3 DEF Init
<1>4. Acc(jb)[0] - Acc(jb)[0] = 0
  <2>1. jb \in Cases /\ 0 \in 0 .. Count(jb)
    BY BaseStart, Places
  <2>2. Acc(jb)[0] \in Nat
    BY <2>1, AccRises
  <2>. QED
    BY <2>2
<1>. QED
  BY <1>1, <1>2, <1>3, <1>4 DEF Init, RunCuts, HttpRows

\* A job that is done has every row of its file in the log, wherever earlier
\* runs broke off and whatever requests and answers were lost: itself or, where
\* rows share an id, another with its id, and as often as it is there where it
\* has none; unless a run cut larger chunks than one before it.
THEOREM EveryRowLands ==
  ASSUME IdsAreNotKeys
  PROVE  Spec => []AllRowsLanded
<1>1. Init => RunCuts /\ HttpRows
  BY CutsStart
<1>2. Base /\ RunCuts /\ HttpRows /\ [Next]_vars => RunCuts' /\ HttpRows'
  BY RunCutsNext, HttpRowsNext
<1>3. ASSUME Base, Marks, RunCuts, HttpRows PROVE AllRowsLanded
  <2>. SUFFICES ASSUME jb.transport = "http", phase = "done", ~Grown, NEW i \in DOMAIN Raw
                PROVE  IF FactOf(i).id = None THEN InFile(FactOf(i)) <= InSink(FactOf(i))
                       ELSE \/ InSink(FactOf(i)) > 0
                            \/ \E j \in DOMAIN Raw \ {i} :
                                 FactOf(j).id = FactOf(i).id /\ InSink(FactOf(j)) > 0
    BY DEF AllRowsLanded
  <2>. DEFINE N == 1 .. Count(jb)
  <2>1. jb \in Cases /\ DOMAIN sink = 1 .. Len(sink)
        /\ \A n \in 1 .. Len(sink) : sink[n] \in Records(jb)
    BY <1>3 DEF Base
  <2>2. PICK from : SentFrom(jb, from)
    BY <2>1, RowsInOrder
  <2>3. \A p \in N : Known(p)
    BY <1>3 DEF HttpRows, RunCuts, UpTo
  <2>4. DOMAIN Raw = N
    BY <2>1, StrippedIsRaw, RowsInOrder DEF Raw, RawRows
  <2>5. (\A p \in N : from[p] \in N) /\ \A j \in N : \E p \in N : from[p] = j
    <3>1. from \in Bijection(N, N)
      BY <2>2 DEF SentFrom
    <3>. HIDE DEF N
    <3>. QED
      BY <3>1, Fun_BijectionProperties
  <2>6. \A p \in N : RowId(jb, p) = FactOf(from[p]).id
    <3>1. ASSUME NEW p \in N PROVE RowId(jb, p) = FactOf(from[p]).id
      <4>1. JobRows(jb)[p] = StrippedRows(jb)[from[p]] /\ from[p] \in N
        BY <2>2, <2>5 DEF SentFrom
      <4>2. Cell(StrippedRows(jb)[from[p]], "_dlt_id") = RawId(jb, from[p])
        BY <2>1, <4>1, StrippedIsRaw, RowsInOrder
      <4>3. RawId(jb, from[p]) = FactOf(from[p]).id
        BY DEF RawId, FactOf, ValueOf, Raw, RawRows
      <4>. QED
        BY <4>1, <4>2, <4>3 DEF RowId
    <3>. QED
      BY <3>1
  <2>7. CASE FactOf(i).id = None
    <3>. DEFINE f == FactOf(i)
                S == {j \in DOMAIN Raw : FactOf(j) = f}
    <3>1. \A p \in N : from[p] \in S => Landed(p)
      BY <2>3, <2>6, <2>7 DEF Known
    <3>2. InFile(f) = Cardinality(S)
      BY DEF InFile
    <3>3. S \in SUBSET {j \in DOMAIN Raw : FactOf(j) = f}
      OBVIOUS
    <3>. HIDE DEF f, S
    <3>4. Cardinality(S) <= InSink(f)
      BY <1>3, <2>2, <3>1, <3>3, LandedCounts
    <3>. QED
      BY <2>7, <3>2, <3>4 DEF f
  <2>8. CASE FactOf(i).id # None
    <3>1. PICK p \in N : from[p] = i
      BY <2>4, <2>5
    <3>2. FactOf(i).id \in seen
      BY <2>3, <2>6, <2>8, <3>1 DEF Known
    <3>3. PICK n \in 1 .. Len(sink) : sink[n].fact.id = FactOf(i).id
      BY <1>3, <3>2 DEF Marks
    <3>4. sink[n].row # 0
      BY <1>3 DEF Marks
    <3>. DEFINE r == sink[n].row
    <3>5. r \in N /\ sink[n] = RecordOf(jb, r) /\ SendableOf(jb, r)
      BY <2>1, <3>4, RecordIsRow
    <3>. HIDE DEF r
    <3>6. sink[n].fact = FactOf(from[r]) /\ from[r] \in N
      BY <1>3, <2>1, <2>2, <3>5, FactsOfRows
    <3>7. InSink(FactOf(from[r])) > 0
      <4>. DEFINE T == {m \in DOMAIN sink : sink[m].fact = FactOf(from[r])}
      <4>1. n \in T /\ T \in SUBSET (1 .. Len(sink)) /\ Len(sink) \in Nat
        BY <1>3, <2>1, <3>6 DEF Base
      <4>2. InSink(FactOf(from[r])) = Cardinality(T)
        BY DEF InSink
      <4>. HIDE DEF T
      <4>3. IsFiniteSet(T)
        BY <4>1, UpToIsFinite, FS_Subset
      <4>4. Cardinality(T) \in Nat /\ Cardinality(T) # 0
        BY <4>1, <4>3, FS_CardinalityType, FS_EmptySet
      <4>. QED
        BY <4>2, <4>4
    <3>8. CASE from[r] = i
      BY <2>8, <3>7, <3>8
    <3>9. CASE from[r] # i
      BY <2>4, <2>8, <3>3, <3>6, <3>7, <3>9
    <3>. QED
      BY <3>8, <3>9
  <2>. QED
    BY <2>7, <2>8
<1>4. Init => Marks
  BY MarksStart
<1>5. Base /\ Marks /\ [Next]_vars => Marks'
  BY MarksNext
<1>. QED
  BY <1>1, <1>2, <1>3, <1>4, <1>5, BaseStart, BaseNext, PTL DEF Spec

-----------------------------------------------------------------------------
(* The fold of the sink                                                    *)

KeysDiffer(b, d) == Joined(KeyOf(b)) # Joined(KeyOf(d))

\* The bodies that the first n facts leave: of each key the last one.
LastOfKeys(facts, n) ==
  {facts[m].fact.body : m \in {i \in 1 .. n :
     /\ ~facts[i].fact.tombstone
     /\ \A j \in 1 .. n : j > i => KeysDiffer(facts[j].fact.body, facts[i].fact.body)}}

\* One more fact: the bodies that stay are those of the other keys.
LEMMA LastGoesOn ==
  ASSUME NEW facts, NEW n \in Nat
  PROVE  LastOfKeys(facts, n + 1) = FoldFact(LastOfKeys(facts, n), facts[n + 1].fact)
<1>. DEFINE Stays(i, k) ==
              /\ ~facts[i].fact.tombstone
              /\ \A j \in 1 .. k : j > i => KeysDiffer(facts[j].fact.body, facts[i].fact.body)
            f == facts[n + 1].fact
<1>1. /\ \A i \in 1 .. n + 1 : i \in 1 .. n \/ i = n + 1
      /\ 1 .. n \subseteq 1 .. n + 1 /\ n + 1 \in 1 .. n + 1
  OBVIOUS
<1>2. ASSUME NEW i \in 1 .. n
      PROVE  Stays(i, n + 1) <=> Stays(i, n) /\ KeysDiffer(f.body, facts[i].fact.body)
  <2>1. i \in Nat /\ n + 1 > i
    OBVIOUS
  <2>. QED
    BY <1>1, <2>1
<1>3. Stays(n + 1, n + 1) <=> ~f.tombstone
  OBVIOUS
<1>4. \A x, k : x \in LastOfKeys(facts, k) <=> \E i \in 1 .. k : Stays(i, k) /\ x = facts[i].fact.body
  BY DEF LastOfKeys
<1>5. \A b : KeysDiffer(b, f.body) <=> KeysDiffer(f.body, b)
  BY DEF KeysDiffer
<1>6. \A x : x \in FoldFact(LastOfKeys(facts, n), f) <=>
               \/ x \in LastOfKeys(facts, n) /\ KeysDiffer(f.body, x)
               \/ x = f.body /\ ~f.tombstone
  BY <1>5 DEF FoldFact, KeysDiffer
<1>. HIDE DEF Stays, f
<1>7. ASSUME NEW x
      PROVE  x \in LastOfKeys(facts, n + 1) <=> x \in FoldFact(LastOfKeys(facts, n), f)
  BY <1>1, <1>2, <1>3, <1>4, <1>6 DEF f
<1>. QED
  BY <1>7 DEF f

\* The fold of the sink is the last body of every key.
LEMMA FoldIsLast ==
  ASSUME NEW V, sink \in Seq(V)
  PROVE  Folded = LastOfKeys(sink, Len(sink))
<1>. DEFINE k == Len(sink)
            eqn(f) == f = [n \in 0 .. k |->
                             IF n = 0 THEN {} ELSE FoldFact(f[n - 1], sink[n].fact)]
            state == CHOOSE f : eqn(f)
            last == [n \in 0 .. k |-> LastOfKeys(sink, n)]
<1>1. k \in Nat
  OBVIOUS
<1>2. LastOfKeys(sink, 0) = {}
  BY DEF LastOfKeys
<1>3. eqn(last)
  <2>. DEFINE L(n) == LastOfKeys(sink, n)
              Step(b, n) == FoldFact(b, sink[n].fact)
              R(n) == IF n = 0 THEN {} ELSE Step(last[n - 1], n)
  <2>1. \A n \in Nat : L(n + 1) = Step(L(n), n + 1)
    BY LastGoesOn
  <2>2. L(0) = {}
    BY <1>2
  <2>3. last = [n \in 0 .. k |-> L(n)]
    OBVIOUS
  <2>4. eqn(last) <=> last = [n \in 0 .. k |-> R(n)]
    OBVIOUS
  <2>. HIDE DEF L, Step, last, k, eqn
  <2>5. ASSUME NEW n \in 0 .. k
        PROVE  L(n) = R(n)
    <3>1. CASE n # 0
      <4>1. n - 1 \in 0 .. k /\ n - 1 \in Nat /\ (n - 1) + 1 = n
        BY <1>1, <3>1
      <4>2. L(n) = Step(L(n - 1), n) /\ last[n - 1] = L(n - 1)
        BY <2>1, <2>3, <4>1
      <4>. QED
        BY <3>1, <4>2
    <3>. QED
      BY <2>2, <3>1
  <2>. QED
    BY <2>3, <2>4, <2>5
<1>4. eqn(state)
  BY <1>3
<1>. HIDE DEF state
<1>5. \A n \in 0 .. k : state[n] = IF n = 0 THEN {} ELSE FoldFact(state[n - 1], sink[n].fact)
  BY <1>4
<1>. DEFINE T == {n \in Nat : n <= k => state[n] = LastOfKeys(sink, n)}
<1>6. 0 \in T
  <2>1. 0 \in 0 .. k
    BY <1>1
  <2>2. state[0] = LastOfKeys(sink, 0)
    BY <1>2, <1>5, <2>1
  <2>. QED
    BY <2>2
<1>7. ASSUME NEW n \in Nat, n \in T
      PROVE  n + 1 \in T
  <2>1. SUFFICES ASSUME n + 1 <= k
                 PROVE  state[n + 1] = LastOfKeys(sink, n + 1)
    OBVIOUS
  <2>2. n + 1 \in 0 .. k /\ n + 1 # 0 /\ (n + 1) - 1 = n
    BY <1>1, <2>1
  <2>3. state[n + 1] = FoldFact(state[n], sink[n + 1].fact)
    BY <1>5, <2>2
  <2>. QED
    BY <1>1, <1>7, <2>1, <2>3, LastGoesOn
<1>8. k \in T
  <2>. HIDE DEF T, k
  <2>. QED
    BY <1>1, <1>6, <1>7, NatsByInduction
<1>9. Folded = state[k]
  BY DEF Folded, state
<1>. QED
  BY <1>1, <1>8, <1>9

-----------------------------------------------------------------------------
(* Sinks that hold the rows in order, over and over                        *)

\* The facts of the sink are of the rows at the places pos, which begin with
\* the first and go on one by one or back.
Replays(pos, k, m) ==
  /\ pos \in [1 .. m -> 1 .. k]
  /\ m > 0 => pos[1] = 1
  /\ \A n \in 1 .. m : n + 1 \in 1 .. m => pos[n + 1] <= pos[n] + 1

\* Whoever comes from below a place to it or above it has been there.
LEMMA ReplayPasses ==
  ASSUME NEW k \in Nat, NEW m \in Nat, NEW pos, Replays(pos, k, m),
         NEW a \in 1 .. m, NEW b \in a .. m, NEW p \in Nat, pos[a] < p, p <= pos[b]
  PROVE  \E n \in 1 .. m : n > a /\ pos[n] = p
<1>. DEFINE T == {d \in Nat : a + d <= m /\ p <= pos[a + d] =>
                    \E n \in 1 .. m : n > a /\ pos[n] = p}
<1>1. pos \in [1 .. m -> 1 .. k]
  BY DEF Replays
<1>2. a \in Nat /\ b \in Nat /\ a <= b /\ b <= m /\ 1 <= a
  OBVIOUS
<1>3. \A n \in 1 .. m : pos[n] \in Nat
  BY <1>1
<1>4. 0 \in T
  BY <1>2, <1>3
<1>5. ASSUME NEW d \in Nat, d \in T
      PROVE  d + 1 \in T
  <2>1. SUFFICES ASSUME a + (d + 1) <= m, p <= pos[a + (d + 1)]
                 PROVE  \E n \in 1 .. m : n > a /\ pos[n] = p
    OBVIOUS
  <2>2. /\ a + d \in 1 .. m /\ a + (d + 1) = (a + d) + 1 /\ (a + d) + 1 \in 1 .. m
        /\ (a + d) + 1 > a
    BY <1>2, <2>1
  <2>3. pos[(a + d) + 1] <= pos[a + d] + 1
    BY <2>2 DEF Replays
  <2>4. pos[a + d] \in Nat /\ pos[(a + d) + 1] \in Nat /\ p <= pos[(a + d) + 1]
    BY <1>3, <2>1, <2>2
  <2>5. CASE p <= pos[a + d]
    BY <1>5, <2>2, <2>5
  <2>6. CASE ~(p <= pos[a + d])
    <3>1. pos[(a + d) + 1] = p
      BY <2>3, <2>4, <2>6
    <3>. QED
      BY <2>2, <3>1
  <2>. QED
    BY <2>5, <2>6
<1>6. b - a \in T
  <2>1. b - a \in Nat
    BY <1>2
  <2>2. Nat \subseteq T
    <3>. HIDE DEF T
    <3>. QED
      BY <1>4, <1>5, NatsByInduction
  <2>. HIDE DEF T
  <2>. QED
    BY <2>1, <2>2
<1>7. a + (b - a) = b
  BY <1>2
<1>. QED
  BY <1>2, <1>6, <1>7

\* A place that is taken is taken a last time.
LEMMA LastTime ==
  ASSUME NEW m \in Nat, NEW pos, NEW p, NEW a \in 1 .. m, pos[a] = p
  PROVE  \E n \in 1 .. m : pos[n] = p /\ \A j \in 1 .. m : j > n => pos[j] # p
<1>. DEFINE I == {n \in 1 .. m : pos[n] = p}
            L == {q \in I \X I : q[1] < q[2]}
            order == Arranged(I, L)
            k == Cardinality(I)
<1>1. I \in SUBSET Int /\ IsFiniteSet(I) /\ I # {}
  <2>1. I \in SUBSET (1 .. m)
    OBVIOUS
  <2>. QED
    BY <2>1, UpToIsFinite, FS_Subset
<1>2. k \in Nat /\ k > 0
  <2>. HIDE DEF I
  <2>. QED
    BY <1>1, FS_CardinalityType, FS_EmptySet
<1>3. IsOrder(L, I)
  <2>. HIDE DEF I
  <2>. QED
    BY <1>1, AscendingIsOrder
<1>. HIDE DEF I
<1>4. order \in Bijection(1 .. k, I) /\ \A i, j \in 1 .. k : i < j => <<order[i], order[j]>> \in L
  <2>. HIDE DEF L
  <2>. QED
    BY <1>1, <1>3, ArrangedIsSorted
<1>5. \A x \in I : \E i \in 1 .. k : order[i] = x
  <2>. DEFINE N == 1 .. k
  <2>1. order \in Bijection(N, I)
    BY <1>4
  <2>. HIDE DEF N, order
  <2>2. \A x \in I : \E i \in N : order[i] = x
    BY <2>1, Fun_BijectionProperties
  <2>. QED
    BY <2>2 DEF N
<1>6. order[k] \in I
  <2>. DEFINE N == 1 .. k
  <2>1. k \in N
    BY <1>2
  <2>2. order \in Bijection(N, I)
    BY <1>4
  <2>. HIDE DEF N, order
  <2>. QED
    BY <2>1, <2>2, Fun_BijectionProperties
<1>. HIDE DEF order
<1>7. ASSUME NEW x \in I PROVE x <= order[k]
  <2>1. PICK i \in 1 .. k : order[i] = x
    BY <1>5
  <2>2. CASE i = k
    BY <1>1, <2>1, <2>2
  <2>3. CASE i < k
    <3>1. k \in 1 .. k
      BY <1>2
    <3>. HIDE DEF L
    <3>2. <<order[i], order[k]>> \in L
      BY <1>4, <2>3, <3>1
    <3>3. order[i] \in I /\ order[k] \in I
      BY <1>6, <2>1
    <3>4. order[i] \in Int /\ order[k] \in Int
      BY <1>1, <3>3
    <3>5. order[i] < order[k]
      BY <3>2 DEF L
    <3>. QED
      BY <2>1, <3>4, <3>5
  <2>. QED
    BY <1>2, <2>2, <2>3
<1>. QED
  BY <1>6, <1>7 DEF I
-----------------------------------------------------------------------------
(* Sinks that hold the rows in order                                       *)

\* The place of the sink's n-th record.
At(n) == IF n = 0 THEN 0 ELSE sink[n].row

\* The sink goes through the rows one by one, from the first, and back now and
\* then; the last time at least to row a.
InOrder == \A n \in 1 .. Len(sink) : sink[n].row # 0 /\ sink[n].row <= At(n - 1) + 1
Reached(a) == At(Len(sink)) >= a

\* The places of the sink are numbers of rows.
LEMMA PlacesInSink ==
  ASSUME Base
  PROVE  /\ Len(sink) \in Nat /\ \A n \in 1 .. Len(sink) : sink[n] \in Records(jb)
         /\ \A n \in 0 .. Len(sink) : At(n) \in Nat /\ At(n) <= Count(jb)
         /\ \A n \in 1 .. Len(sink) : sink[n].row \in Nat
<1>1. /\ Len(sink) \in Nat /\ \A n \in 1 .. Len(sink) : sink[n] \in Records(jb)
      /\ jb \in Cases
  BY DEF Base
<1>2. \A n \in 1 .. Len(sink) : sink[n].row \in 0 .. Count(jb)
  BY <1>1, RecordIsRow
<1>3. Count(jb) \in Nat
  BY <1>1, JobRowsAreRaw
<1>4. \A n \in 1 .. Len(sink) : sink[n].row \in Nat /\ sink[n].row <= Count(jb)
  BY <1>2, <1>3
<1>5. \A n \in 0 .. Len(sink) : At(n) \in Nat /\ At(n) <= Count(jb)
  BY <1>1, <1>3, <1>4 DEF At
<1>. QED
  BY <1>1, <1>4, <1>5

\* Rows of the chunk behind a sink that has reached the row before them.
LEMMA OrderGoesOn ==
  ASSUME Base, InOrder, NEW lo \in Nat, Reached(Start + lo), jb' = jb,
         NEW add \in Seq(Records(jb)), sink' = sink \o add,
         \A i \in 1 .. Len(add) : lo + i \in 1 .. Len(pending) /\ add[i] = Chunk[lo + i]
  PROVE  InOrder' /\ \A a : a = Start + lo + Len(add) => Reached(a)'
<1>. DEFINE s == Len(sink)
            k == Len(add)
<1>1. /\ s \in Nat /\ k \in Nat /\ Len(sink') = s + k
      /\ \A n \in 1 .. s + k : sink'[n] = IF n <= s THEN sink[n] ELSE add[n - s]
  <2>. DEFINE F == Records(jb)
  <2>1. sink \in Seq(F) /\ add \in Seq(F)
    BY DEF Base
  <2>. HIDE DEF F
  <2>2. Len(sink \o add) = Len(sink) + Len(add)
    BY <2>1, ConcatProperties
  <2>3. \A n \in 1 .. Len(sink) + Len(add) :
          (sink \o add)[n] = IF n <= Len(sink) THEN sink[n] ELSE add[n - Len(sink)]
    BY <2>1, ConcatProperties
  <2>4. Len(sink) \in Nat /\ Len(add) \in Nat
    BY <2>1
  <2>. QED
    BY <2>2, <2>3, <2>4
<1>2. Start \in Nat /\ \A i \in 1 .. k : Chunk[lo + i].row = Start + (lo + i)
  BY ChunkIsRows DEF RecordOf
<1>3. /\ At(s) \in Nat /\ At(s) >= Start + lo
      /\ \A n \in 1 .. s : sink[n].row # 0 /\ sink[n].row <= At(n - 1) + 1
  BY <1>1, PlacesInSink DEF Reached, InOrder
<1>0. At(s) \in Nat /\ At(s) >= Start + lo /\ Start \in Nat
  BY <1>2, <1>3
<1>4. \A n \in 1 .. s : sink'[n] = sink[n]
  BY <1>1
<1>5. \A i \in 1 .. k : sink'[s + i].row = Start + (lo + i)
  <2>1. ASSUME NEW i \in 1 .. k
        PROVE  sink'[s + i].row = Start + (lo + i)
    <3>1. s + i \in 1 .. s + k /\ ~(s + i <= s) /\ (s + i) - s = i
      BY <1>1
    <3>. HIDE DEF s, k
    <3>. QED
      BY <1>1, <1>2, <3>1 DEF k
  <2>. QED
    BY <2>1
<1>. DEFINE at(n) == IF n = 0 THEN 0 ELSE sink'[n].row
<1>6. (\A n \in 0 .. s : at(n) = At(n)) /\ \A i \in 1 .. k : at(s + i) = Start + (lo + i)
  <2>1. \A i \in 1 .. k : s + i # 0
    BY <1>1
  <2>. QED
    BY <1>1, <1>4, <1>5, <2>1 DEF At
<1>. HIDE DEF s, k
<1>7. ASSUME NEW n \in 1 .. s + k
      PROVE  sink'[n].row # 0 /\ sink'[n].row <= at(n - 1) + 1
  <2>1. CASE n <= s
    <3>1. n \in 1 .. s /\ n - 1 \in 0 .. s
      BY <1>1, <2>1
    <3>2. sink'[n] = sink[n] /\ at(n - 1) = At(n - 1)
      BY <1>4, <1>6, <3>1
    <3>. QED
      BY <1>3, <3>1, <3>2
  <2>2. CASE n = s + 1
    <3>1. 1 \in 1 .. k /\ n - 1 = s /\ s \in 0 .. s
      BY <1>1, <2>2
    <3>2. sink'[n].row = Start + (lo + 1) /\ at(n - 1) = At(s)
      BY <1>5, <1>6, <2>2, <3>1
    <3>. HIDE DEF at
    <3>. QED
      BY <1>0, <3>2
  <2>3. CASE n > s + 1
    <3>. DEFINE i == n - s
    <3>1. i \in 1 .. k /\ i - 1 \in 1 .. k /\ n = s + i /\ n - 1 = s + (i - 1)
      BY <1>1, <2>3
    <3>. HIDE DEF i
    <3>2. sink'[n].row = Start + (lo + i) /\ at(n - 1) = Start + (lo + (i - 1))
      BY <1>5, <1>6, <3>1
    <3>3. i \in Int
      BY <3>1
    <3>. QED
      BY <1>1, <1>2, <3>1, <3>2, <3>3
  <2>. QED
    BY <1>1, <2>1, <2>2, <2>3
<1>8. \A n \in 1 .. Len(sink') : n \in 1 .. s + k
  BY <1>1
<1>9. InOrder'
  BY <1>7, <1>8 DEF InOrder, At
<1>10. at(s + k) >= Start + lo + k
  <2>1. CASE k = 0
    <3>1. s + k = s /\ s \in 0 .. s
      BY <1>1, <2>1
    <3>2. at(s + k) = At(s)
      BY <1>6, <3>1
    <3>. HIDE DEF at
    <3>. QED
      BY <1>0, <2>1, <3>2
  <2>2. CASE k # 0
    <3>1. k \in 1 .. k
      BY <1>1, <2>2
    <3>2. at(s + k) = Start + (lo + k)
      BY <1>6, <3>1
    <3>. QED
      BY <1>1, <1>2, <3>2
  <2>. QED
    BY <2>1, <2>2
<1>11. \A a : a = Start + lo + k => Reached(a)'
  BY <1>1, <1>10 DEF Reached, At
<1>. QED
  BY <1>9, <1>11 DEF k

\* Where the rows behind the first lo of a chunk are new, they are what lands.
LEMMA NewIsTail ==
  ASSUME Base, ChunkBuildable, NEW lo \in 0 .. Len(pending),
         \A i \in 1 .. Len(pending) : IsNew(i) <=> i > lo
  PROVE  /\ Len(New(Chunk)) = Len(pending) - lo
         /\ \A n \in 1 .. Len(pending) - lo :
              lo + n \in 1 .. Len(pending) /\ New(Chunk)[n] = Chunk[lo + n]
<1>. DEFINE P == Len(pending)
            I == {n \in DOMAIN Chunk : Chunk[n].fact.id = None \/ Chunk[n].fact.id \notin seen}
            k == P - lo
            L == {p \in I \X I : p[1] < p[2]}
            q == [n \in 1 .. k |-> lo + n]
<1>1. P \in Nat /\ DOMAIN Chunk = 1 .. P /\ lo \in Nat /\ lo <= P /\ k \in Nat
  BY ChunkIsRows
<1>2. \A i \in 1 .. P : i \in I <=> i > lo
  BY <1>1 DEF IsNew
<1>3. I \in SUBSET (1 .. P) /\ New(Chunk) = Picked(Chunk, I)
  BY <1>1 DEF New
<1>. HIDE DEF I, P
<1>4. \A n \in 1 .. k : lo + n \in 1 .. P /\ lo + n > lo
  BY <1>1
<1>5. q \in [1 .. k -> I] /\ \A x \in I : \E n \in 1 .. k : q[n] = x
  <2>1. q \in [1 .. k -> I]
    BY <1>2, <1>4
  <2>2. ASSUME NEW x \in I
        PROVE  \E n \in 1 .. k : q[n] = x
    <3>1. x \in 1 .. P /\ x > lo
      BY <1>2, <1>3
    <3>2. x - lo \in 1 .. k /\ lo + (x - lo) = x
      BY <1>1, <3>1
    <3>. QED
      BY <3>2
  <2>. QED
    BY <2>1, <2>2
<1>6. \A m, n \in 1 .. k : m < n => <<q[m], q[n]>> \in L
  <2>1. \A n \in 1 .. k : q[n] \in I /\ q[n] = lo + n
    BY <1>5
  <2>2. \A x, y \in I : x < y => <<x, y>> \in L
    OBVIOUS
  <2>. HIDE DEF q, L
  <2>3. \A m, n \in 1 .. k : m < n => lo + m < lo + n
    BY <1>1
  <2>. HIDE DEF k
  <2>. QED
    BY <2>1, <2>2, <2>3
<1>7. IsOrder(L, I)
  <2>1. I \in SUBSET Int
    BY <1>1, <1>3
  <2>. QED
    BY <2>1, AscendingIsOrder
<1>8. Arranged(I, L) = q
  <2>1. k \in Nat
    BY <1>1
  <2>. HIDE DEF L, q, k
  <2>. QED
    BY <1>5, <1>6, <1>7, <2>1, ArrangedIsUnique
<1>9. New(Chunk) = [n \in 1 .. k |-> Chunk[lo + n]]
  <2>1. DOMAIN q = 1 .. k /\ \A n \in 1 .. k : q[n] = lo + n
    OBVIOUS
  <2>. HIDE DEF q, k
  <2>2. Picked(Chunk, I) = [n \in DOMAIN q |-> Chunk[q[n]]]
    BY <1>8 DEF Picked
  <2>. QED
    BY <1>3, <2>1, <2>2
<1>10. Len(New(Chunk)) = k
  <2>. HIDE DEF k
  <2>. QED
    BY <1>1, <1>9
<1>11. \A n \in 1 .. k : New(Chunk)[n] = Chunk[lo + n]
  <2>. HIDE DEF k
  <2>. QED
    BY <1>9
<1>. QED
  BY <1>4, <1>10, <1>11 DEF P

\* A commit of such a chunk keeps the log in order, and takes it to the end of
\* the chunk; if nothing is new, it changes nothing.
LEMMA CommitInOrder ==
  ASSUME Base, ChunkBuildable, Commit(Chunk), jb' = jb, InOrder,
         NEW lo \in 0 .. Len(pending), Reached(Start + lo),
         \A i \in 1 .. Len(pending) : IsNew(i) <=> i > lo
  PROVE  /\ InOrder' /\ \A a : a = read => Reached(a)'
         /\ lo = Len(pending) => sink' = sink
<1>. DEFINE q == New(Chunk)
<1>1. /\ Len(q) = Len(pending) - lo /\ q \in Seq(Records(jb)) /\ sink' = sink \o q
      /\ \A n \in 1 .. Len(pending) - lo :
           lo + n \in 1 .. Len(pending) /\ q[n] = Chunk[lo + n]
  BY NewIsTail, NewOfChunk DEF Commit
<1>2. /\ Len(pending) \in Nat /\ lo \in Nat /\ Start \in Nat /\ read = Start + Len(pending)
      /\ sink \in Seq(Records(jb))
  BY ChunkIsRows DEF Base
<1>. HIDE DEF q
<1>3. Start + lo + Len(q) = read
  BY <1>1, <1>2
<1>4. InOrder' /\ \A a : a = Start + lo + Len(q) => Reached(a)'
  BY <1>1, <1>2, OrderGoesOn
<1>5. ASSUME lo = Len(pending) PROVE sink' = sink
  <2>. DEFINE F == Records(jb)
  <2>. HIDE DEF F
  <2>1. q \in Seq(F) /\ sink \in Seq(F)
    BY <1>1, <1>2 DEF F
  <2>2. Len(q) = 0
    BY <1>1, <1>2, <1>5
  <2>3. q = <<>>
    BY <2>1, <2>2
  <2>. QED
    BY <1>1, <2>1, <2>3
<1>. QED
  BY <1>3, <1>4, <1>5
-----------------------------------------------------------------------------
(* The order of the rows in a local file                                   *)

\* A local file without a torn line holds the rows in order, those of each
\* run from the first.
FilePlaces ==
  jb.transport = "file" /\ ~HasGarbage =>
    InOrder /\ (phase \in {"running", "done"} => Reached(Start))

\* Where the run is after a step other than the sending of a chunk.
LEMMA StartMoves ==
  ASSUME Base, Run \/ TakeRow \/ SendRaises \/ Return \/ UNCHANGED vars
  PROVE  /\ UNCHANGED <<jb, sink, torn, service>>
         /\ phase' \in {"running", "done"} =>
              Start' = 0 \/ (Start' = Start /\ phase \in {"running", "done"})
<1>1. CASE Run
  <2>1. Len(pending') = 0 /\ read' = 0
    BY <1>1 DEF Run
  <2>2. read' - Len(pending') = 0
    BY <2>1
  <2>. QED
    BY <1>1, <2>2 DEF Run, Start
<1>2. CASE TakeRow
  <2>1. Len(pending') = Len(pending) + 1 /\ read' = read + 1
    BY <1>2 DEF TakeRow, Base
  <2>2. read' - Len(pending') = read - Len(pending)
    BY <2>1, Places
  <2>. QED
    BY <1>2, <2>2 DEF TakeRow, Start
<1>3. CASE SendRaises
  BY <1>3 DEF SendRaises, Broken
<1>4. CASE Return
  BY <1>4 DEF Return, Start
<1>5. CASE UNCHANGED vars
  BY <1>5 DEF vars, service, Start
<1>. QED
  BY <1>1, <1>2, <1>3, <1>4, <1>5

\* And after a chunk has been sent.
LEMMA StartSent ==
  ASSUME Base, phase = "running", Sent \/ Broken
  PROVE  /\ Sent => Start' = read
         /\ Broken => phase' \notin {"running", "done"}
<1>1. ASSUME Sent PROVE Start' = read
  <2>1. Len(pending') = 0 /\ read' = read
    BY <1>1 DEF Sent
  <2>2. read' - Len(pending') = read
    BY <2>1, Places
  <2>. QED
    BY <2>2 DEF Start
<1>. QED
  BY <1>1 DEF Broken

\* A send that leaves no garbage behind has added records of the chunk.
LEMMA FileAdds ==
  ASSUME Base, SendFile, ~HasGarbage'
  PROVE  /\ ~HasGarbage
         /\ \E add \in Seq(Records(jb)) :
              /\ \A i \in 1 .. Len(add) : i \in 1 .. Len(pending) /\ add[i] = Chunk[i]
              /\ sink' = sink \o add
              /\ (Sent /\ Len(add) = Len(pending)) \/ Broken
<1>. DEFINE F == Records(jb)
<1>1. /\ AppendLines(Chunk) /\ Chunk \in Seq(F) /\ Len(Chunk) = Len(pending)
      /\ Len(pending) \in Nat /\ torn \in BOOLEAN /\ sink \in Seq(F)
  BY SendFileDoes, ChunkIsRows, ChunkIsRecords DEF Base
<1>2. ASSUME NEW recs \in Seq(F), Len(recs) \in Nat,
             \A i \in 1 .. Len(recs) : i \in 1 .. Len(pending) /\ recs[i] = Chunk[i],
             sink' = sink \o Written(recs), torn /\ Len(recs) = 0 => torn',
             (Sent /\ Len(recs) = Len(pending)) \/ Broken
      PROVE  /\ ~HasGarbage
             /\ \E add \in Seq(F) :
                  /\ \A i \in 1 .. Len(add) : i \in 1 .. Len(pending) /\ add[i] = Chunk[i]
                  /\ sink' = sink \o add
                  /\ (Sent /\ Len(add) = Len(pending)) \/ Broken
  <2>. DEFINE w == Written(recs)
              k == Len(recs)
  <2>1. /\ w \in Seq(F) /\ Len(w) = k
        /\ \A n \in 1 .. k : w[n] = IF torn /\ n = 1 THEN Garbage ELSE recs[n]
    BY WrittenIsRecords
  <2>. HIDE DEF F, w, k
  <2>2. sink' = sink \o w /\ k \in Nat
    BY <1>2 DEF w, k
  <2>3. Len(sink \o w) = Len(sink) + Len(w)
    BY <1>1, <2>1, ConcatProperties
  <2>4. \A n \in 1 .. Len(sink) + Len(w) :
          (sink \o w)[n] = IF n <= Len(sink) THEN sink[n] ELSE w[n - Len(sink)]
    BY <1>1, <2>1, ConcatProperties
  <2>5. Len(sink) \in Nat /\ DOMAIN sink = 1 .. Len(sink)
    BY <1>1
  <2>6. DOMAIN sink' = 1 .. Len(sink) + k
    <3>1. sink \o w \in Seq(F)
      BY <1>1, <2>1, ConcatProperties
    <3>2. DOMAIN (sink \o w) = 1 .. Len(sink \o w)
      BY <3>1
    <3>. QED
      BY <2>1, <2>2, <2>3, <3>2
  <2>7. ~torn' /\ \A i \in DOMAIN sink' : sink'[i].row # 0
    BY DEF HasGarbage
  <2>9. ~torn
    <3>1. SUFFICES ASSUME torn PROVE FALSE
      OBVIOUS
    <3>2. k # 0
      BY <1>2, <2>7, <3>1 DEF k
    <3>3. 1 \in 1 .. k /\ w[1] = Garbage
      BY <2>1, <2>2, <3>1, <3>2
    <3>4. Len(sink) + 1 \in 1 .. Len(sink) + Len(w) /\ ~(Len(sink) + 1 <= Len(sink))
          /\ (Len(sink) + 1) - Len(sink) = 1
      BY <2>1, <2>2, <2>5, <3>2
    <3>5. sink'[Len(sink) + 1] = Garbage
      BY <2>2, <2>4, <3>3, <3>4
    <3>6. Garbage.row = 0 /\ Len(sink) + 1 \in DOMAIN sink'
      BY <2>1, <2>6, <3>4 DEF Garbage
    <3>. QED
      BY <2>7, <3>5, <3>6
  <2>10. \A i \in DOMAIN sink : sink[i].row # 0
    <3>1. ASSUME NEW i \in DOMAIN sink
          PROVE  i \in DOMAIN sink' /\ sink'[i] = sink[i]
      BY <2>1, <2>2, <2>4, <2>5, <2>6
    <3>. QED
      BY <2>7, <3>1
  <2>11. ~HasGarbage
    BY <2>9, <2>10 DEF HasGarbage
  <2>12. \A i \in 1 .. Len(w) : i \in 1 .. Len(pending) /\ w[i] = Chunk[i]
    BY <1>2, <2>1, <2>9 DEF k
  <2>13. (Sent /\ Len(w) = Len(pending)) \/ Broken
    BY <1>2, <2>1 DEF k
  <2>. QED
    BY <2>1, <2>2, <2>11, <2>12, <2>13
<1>3. CASE Sent /\ sink' = sink \o Written(Chunk) /\ torn' = (torn /\ Chunk = <<>>)
  <2>1. Len(Chunk) = 0 => Chunk = <<>>
    BY <1>1
  <2>2. torn /\ Len(Chunk) = 0 => torn'
    BY <1>1, <1>3, <2>1
  <2>. QED
    BY <1>1, <1>2, <1>3, <2>2
<1>4. CASE /\ Broken
           /\ \E k \in 0 .. Len(Chunk), part \in BOOLEAN :
                /\ part => k < Len(Chunk)
                /\ sink' = sink \o Written(SubSeq(Chunk, 1, k))
                /\ torn' = (part \/ (torn /\ k = 0))
  <2>1. PICK k \in 0 .. Len(Chunk), part \in BOOLEAN :
          sink' = sink \o Written(SubSeq(Chunk, 1, k)) /\ torn' = (part \/ (torn /\ k = 0))
    BY <1>4
  <2>. DEFINE r == SubSeq(Chunk, 1, k)
  <2>2. r \in Seq(F) /\ Len(r) = k /\ \A i \in 1 .. k : r[i] = Chunk[i]
    <3>1. Chunk \in Seq(F) /\ k \in 0 .. Len(Chunk) /\ k \in Nat
      BY <1>1
    <3>. HIDE DEF F
    <3>2. \A i \in 1 .. k : Chunk[i] \in F
      BY <3>1
    <3>. QED
      BY <3>1, <3>2
  <2>3. torn /\ k = 0 => torn'
    BY <1>1, <2>1
  <2>4. k \in Nat /\ \A i \in 1 .. k : i \in 1 .. Len(pending)
    BY <1>1
  <2>5. sink' = sink \o Written(r)
    BY <2>1
  <2>. HIDE DEF r
  <2>. QED
    BY <1>2, <1>4, <2>2, <2>3, <2>4, <2>5
<1>. QED
  BY <1>1, <1>3, <1>4 DEF AppendLines

\* Each step keeps the rows of the file in order.
LEMMA FilePlacesNext ==
  ASSUME Base, FilePlaces, [Next]_vars
  PROVE  FilePlaces'
<1>1. CASE Run \/ TakeRow \/ SendRaises \/ Return \/ UNCHANGED vars
  <2>1. /\ UNCHANGED <<jb, sink, torn>>
        /\ phase' \in {"running", "done"} =>
             Start' = 0 \/ (Start' = Start /\ phase \in {"running", "done"})
    BY <1>1, StartMoves
  <2>2. At(Len(sink)) >= 0
    <3>1. Len(sink) \in 0 .. Len(sink)
      BY PlacesInSink
    <3>. QED
      BY <3>1, PlacesInSink
  <2>3. InOrder' = InOrder /\ (HasGarbage' <=> HasGarbage)
    BY <2>1 DEF InOrder, At, HasGarbage
  <2>4. Reached(Start) /\ Start' = Start => Reached(Start)'
    BY <2>1 DEF Reached, At
  <2>5. Start' = 0 => Reached(Start)'
    BY <2>1, <2>2 DEF Reached, At
  <2>. QED
    BY <2>1, <2>3, <2>4, <2>5 DEF FilePlaces
<1>2. CASE SendFile /\ ~HasGarbage'
  <2>1. phase = "running" /\ jb' = jb /\ jb.transport = "file"
    BY <1>2, SendFileDoes
  <2>2. ~HasGarbage
    BY <1>2, FileAdds
  <2>3. InOrder /\ Reached(Start)
    BY <2>1, <2>2 DEF FilePlaces
  <2>4. PICK add \in Seq(Records(jb)) :
          /\ \A i \in 1 .. Len(add) : i \in 1 .. Len(pending) /\ add[i] = Chunk[i]
          /\ sink' = sink \o add
          /\ (Sent /\ Len(add) = Len(pending)) \/ Broken
    BY <1>2, FileAdds
  <2>5. Start \in Nat /\ Start + Len(pending) = read /\ Len(pending) \in Nat /\ Len(add) \in Nat
    BY Places
  <2>6. \A i \in 1 .. Len(add) : 0 + i \in 1 .. Len(pending) /\ add[i] = Chunk[0 + i]
    <3>1. \A i \in 1 .. Len(add) : 0 + i = i
      BY <2>5
    <3>. QED
      BY <2>4, <3>1
  <2>7. Start + 0 = Start /\ 0 \in Nat /\ Reached(Start + 0)
    <3>1. Start + 0 = Start
      BY <2>5
    <3>. QED
      BY <2>3, <3>1
  <2>8. InOrder' /\ \A a : a = Start + 0 + Len(add) => Reached(a)'
    BY <2>1, <2>3, <2>4, <2>6, <2>7, OrderGoesOn
  <2>9. CASE Sent /\ Len(add) = Len(pending)
    <3>1. Start' = read /\ read = Start + 0 + Len(add)
      BY <2>1, <2>5, <2>9, StartSent
    <3>. QED
      BY <2>8, <3>1 DEF FilePlaces, Reached
  <2>10. CASE Broken
    BY <2>1, <2>8, <2>10, StartSent DEF FilePlaces
  <2>. QED
    BY <2>4, <2>9, <2>10
<1>3. CASE SendHttp
  BY <1>3, SendHttpDoes DEF FilePlaces
<1>4. CASE HasGarbage'
  BY <1>4 DEF FilePlaces
<1>. QED
  BY <1>1, <1>2, <1>3, <1>4 DEF Next
-----------------------------------------------------------------------------
(* The order of the rows in the log, when they have ids                    *)

\* Jobs that go to the service have ids for all their rows, or for none.
HasIds(c) == \A i \in 1 .. Len(RawRows(c)) : RawId(c, i) # None
HasNoIds(c) == \A i \in 1 .. Len(RawRows(c)) : RawId(c, i) = None
IdsAreUniform == \A c \in Cases : c.transport = "http" => HasIds(c) \/ HasNoIds(c)

\* Each row whose id is marked has been marked itself.
Clean ==
  \A p \in 1 .. Count(jb) : RowId(jb, p) \in seen =>
    \E n \in 1 .. Len(sink) : n \notin unmarked /\ sink[n].row = p

\* Then the marked ids are those of the first rows, and the log is in order
\* and has come to the last one of them.
Marked(m) ==
  Reached(m) /\ \A p \in 1 .. Count(jb) : RowId(jb, p) \in seen <=> p <= m
MarkPlaces ==
  jb.transport = "http" /\ ~Grown /\ HasIds(jb) /\ Clean => InOrder /\ \E m \in Nat : Marked(m)

\* The ids of the rows that are sent are there, or not, as those of the file.
LEMMA IdsOfRows ==
  ASSUME NEW c \in Cases
  PROVE  /\ HasIds(c) => \A p \in 1 .. Count(c) : RowId(c, p) # None
         /\ HasNoIds(c) => \A p \in 1 .. Count(c) : RowId(c, p) = None
<1>. DEFINE N == 1 .. Count(c)
<1>1. PICK from \in Bijection(N, N) : \A i \in N : RowId(c, i) = RawId(c, from[i])
  BY JobRowsAreRaw
<1>2. \A p \in N : from[p] \in N
  <2>. HIDE DEF N
  <2>. QED
    BY <1>1, Fun_BijectionProperties
<1>3. N = 1 .. Len(RawRows(c))
  BY JobRowsAreRaw
<1>. QED
  BY <1>1, <1>2, <1>3 DEF HasIds, HasNoIds

\* What is not clean never is again.
LEMMA CleanBefore ==
  ASSUME Base, SendHttp, Commit(Chunk), Lands \/ LandsBare, HasIds(jb), Clean'
  PROVE  Clean
<1>1. /\ ChunkBuildable /\ jb' = jb /\ jb \in Cases
  BY SendHttpDoes DEF Base
<1>2. /\ \A n \in 1 .. Len(sink) : sink'[n] = sink[n]
      /\ \A n \in 1 .. Len(sink') : n \in 1 .. Len(sink) \/ n \in Len(sink) + 1 .. Len(sink')
      /\ \A n \in Len(sink) + 1 .. Len(sink') :
           \E i \in 1 .. Len(pending) : sink'[n] = Chunk[i] /\ IsNew(i)
  BY <1>1, CommitAdds
<1>3. seen \subseteq seen' /\ unmarked \subseteq unmarked'
  BY <1>1, MarkAdds DEF Lands, LandsBare
<1>. SUFFICES ASSUME NEW p \in 1 .. Count(jb), RowId(jb, p) \in seen
              PROVE  \E n \in 1 .. Len(sink) : n \notin unmarked /\ sink[n].row = p
  BY DEF Clean
<1>4. PICK n \in 1 .. Len(sink') : n \notin unmarked' /\ sink'[n].row = p
  BY <1>1, <1>3 DEF Clean
<1>5. CASE n \in 1 .. Len(sink)
  BY <1>2, <1>3, <1>4, <1>5
<1>6. CASE n \in Len(sink) + 1 .. Len(sink')
  <2>1. PICK i \in 1 .. Len(pending) : sink'[n] = Chunk[i] /\ IsNew(i)
    BY <1>2, <1>6
  <2>2. Chunk[i].row = Start + i /\ Chunk[i].fact.id = RowId(jb, Start + i)
    BY ChunkIsRows DEF RecordOf
  <2>3. Chunk[i].fact.id = RowId(jb, p)
    BY <1>4, <2>1, <2>2
  <2>4. RowId(jb, p) # None
    BY <1>1, IdsOfRows
  <2>. QED
    BY <2>1, <2>3, <2>4 DEF IsNew
<1>. QED
  BY <1>2, <1>5, <1>6

\* Each step keeps the log of rows with ids in order.
LEMMA MarkPlacesNext ==
  ASSUME Base, Marks, RunCuts, HttpRows, MarkPlaces, [Next]_vars
  PROVE  MarkPlaces'
<1>1. CASE UNCHANGED <<jb, sink, service>> /\ (~Grown' => ~Grown)
  BY <1>1 DEF MarkPlaces, Marked, Clean, InOrder, Reached, At, service
<1>2. CASE Run \/ TakeRow \/ SendRaises \/ Return \/ UNCHANGED vars
  <2>1. UNCHANGED <<jb, sink, service>>
    BY <1>2, StartMoves
  <2>2. Run \/ UNCHANGED runs
    BY <1>2 DEF TakeRow, SendRaises, Return, vars
  <2>3. ~Grown' => ~Grown
    BY <2>2, GrownStays DEF Grown
  <2>. QED
    BY <1>1, <2>1, <2>3
<1>3. CASE SendFile
  BY <1>3, SendFileDoes DEF MarkPlaces
<1>4. CASE SendHttp /\ ~UNCHANGED <<jb, sink, service>>
  <2>1. /\ jb.transport = "http" /\ phase = "running" /\ ChunkBuildable
        /\ UNCHANGED <<jb, runs>> /\ Commit(Chunk) /\ (Lands \/ LandsBare) /\ jb \in Cases
    BY <1>4, SendHttpDoes DEF Lands, LandsBare, Base
  <2>2. Grown' <=> Grown
    BY <2>1 DEF Grown
  <2>. SUFFICES ASSUME ~Grown, HasIds(jb), Clean'
                PROVE  InOrder' /\ \E m \in Nat : \A a : a = m => Marked(a)'
    <3>1. ASSUME NEW m \in Nat, \A a : a = m => Marked(a)'
          PROVE  Marked(m)'
      BY <3>1
    <3>. QED
      BY <2>1, <2>2, <3>1 DEF MarkPlaces
  <2>3. Clean
    BY <1>4, <2>1, CleanBefore
  <2>4. PICK m \in Nat : InOrder /\ Marked(m)
    BY <2>1, <2>3 DEF MarkPlaces
  <2>5. /\ Start \in Nat /\ read \in Nat /\ Len(pending) \in Nat /\ Start + Len(pending) = read
        /\ Count(jb) \in Nat /\ read <= Count(jb)
    BY Places
  <2>6. \A p \in 1 .. Count(jb) : RowId(jb, p) # None
    BY <2>1, IdsOfRows
  <2>7. Start <= m
    <3>1. CASE Start = 0
      BY <2>5, <3>1
    <3>2. CASE Start # 0
      <4>1. Start \in 1 .. Start /\ Start \in 1 .. Count(jb)
        BY <2>5, <3>2
      <4>2. RowId(jb, Start) \in seen
        BY <2>1, <2>6, <4>1 DEF HttpRows, UpTo, Known
      <4>. QED
        BY <2>4, <4>1, <4>2 DEF Marked
    <3>. QED
      BY <3>1, <3>2
  <2>. DEFINE lo == IF m <= read THEN m - Start ELSE Len(pending)
  <2>8. /\ lo \in 0 .. Len(pending)
        /\ \A i \in 1 .. Len(pending) : Start + i <= m <=> i <= lo
        /\ Start + lo <= m /\ (m <= read => Start + lo = m)
    BY <2>5, <2>7
  <2>9. \A i \in 1 .. Len(pending) : IsNew(i) <=> i > lo
    <3>1. ASSUME NEW i \in 1 .. Len(pending) PROVE IsNew(i) <=> i > lo
      <4>1. Start + i \in 1 .. Count(jb) /\ Chunk[i].fact.id = RowId(jb, Start + i)
        BY ChunkIsRows
      <4>2. IsNew(i) <=> ~(Start + i <= m)
        BY <2>4, <2>6, <4>1 DEF IsNew, Marked
      <4>3. i \in Nat /\ lo \in Nat
        BY <2>8
      <4>. HIDE DEF lo
      <4>. QED
        BY <2>8, <4>2, <4>3
    <3>. QED
      BY <3>1
  <2>. HIDE DEF lo
  <2>10. At(Len(sink)) \in Nat /\ At(Len(sink)) >= m /\ lo \in Nat
    <3>1. Len(sink) \in 0 .. Len(sink)
      BY PlacesInSink
    <3>. QED
      BY <2>4, <2>8, <3>1, PlacesInSink DEF Marked, Reached
  <2>11. Reached(Start + lo)
    BY <2>5, <2>8, <2>10 DEF Reached
  <2>12. /\ InOrder' /\ (\A a : a = read => Reached(a)')
         /\ lo = Len(pending) => sink' = sink
    BY <2>1, <2>4, <2>8, <2>9, <2>11, CommitInOrder
  <2>13. At(Len(sink))' \in Nat
    <3>1. Base'
      BY BaseNext
    <3>3. /\ Len(sink') \in Nat /\ jb' \in Cases
          /\ \A n \in 1 .. Len(sink') : sink'[n] \in Records(jb')
      BY <3>1 DEF Base
    <3>4. Count(jb') \in Nat
      BY <3>3, JobRowsAreRaw
    <3>2. \A n \in 1 .. Len(sink') : sink'[n].row \in Nat
      BY <3>3, <3>4, RecordIsRow
    <3>. QED
      BY <3>2, <3>3 DEF At
  <2>14. Reached(m)' /\ (LandsBare \/ Lands)
    <3>1. CASE m <= read
      BY <2>1, <2>5, <2>12, <2>13, <3>1 DEF Reached
    <3>2. CASE ~(m <= read)
      <4>1. sink' = sink
        BY <2>12, <3>2 DEF lo
      <4>. QED
        BY <2>1, <2>4, <4>1 DEF Marked, Reached, At
    <3>. QED
      BY <3>1, <3>2
  <2>15. CASE LandsBare
    <3>1. seen' = seen
      BY <2>15 DEF LandsBare
    <3>2. \A p \in 1 .. Count(jb') : RowId(jb', p) \in seen' <=> p <= m
      BY <2>1, <2>4, <3>1 DEF Marked
    <3>. QED
      BY <2>12, <2>14, <3>2 DEF Marked
  <2>16. CASE Lands
    <3>. DEFINE top == IF m <= read THEN read ELSE m
    <3>1. top \in Nat /\ \A a : a = top => Reached(a)'
      <4>1. top \in Nat
        BY <2>5
      <4>2. \A a : a = m => Reached(a)'
        BY <2>14 DEF Reached
      <4>. QED
        BY <2>12, <4>1, <4>2
    <3>2. Mark(Chunk) /\ unmarked' = unmarked /\ seen \subseteq seen'
      BY <2>1, <2>16, MarkAdds DEF Lands
    <3>3. ASSUME NEW p \in 1 .. Count(jb), RowId(jb, p) \in seen'
          PROVE  p <= top
      <4>1. PICK n \in 1 .. Len(sink') : n \notin unmarked' /\ sink'[n].row = p
        BY <2>1, <3>3 DEF Clean
      <4>2. /\ \A n1 \in 1 .. Len(sink) : sink'[n1] = sink[n1]
            /\ \A n1 \in 1 .. Len(sink') : n1 \in 1 .. Len(sink) \/ n1 \in Len(sink) + 1 .. Len(sink')
            /\ \A n1 \in Len(sink) + 1 .. Len(sink') :
                 \E i \in 1 .. Len(pending) : sink'[n1] = Chunk[i] /\ IsNew(i)
        BY <2>1, CommitAdds
      <4>3. CASE n \in 1 .. Len(sink)
        <5>1. sink[n].row = p /\ n \notin unmarked
          BY <3>2, <4>1, <4>2, <4>3
        <5>2. sink[n].fact.id = RowId(jb, p)
          <6>1. sink[n] \in Records(jb) /\ sink[n].row # 0
            BY <4>3, <5>1, PlacesInSink
          <6>. QED
            BY <2>1, <5>1, <6>1, RecordIsRow
        <5>3. RowId(jb, p) \in seen
          BY <2>1, <2>6, <4>3, <5>1, <5>2 DEF Marks
        <5>4. p <= m
          BY <2>4, <5>3 DEF Marked
        <5>. QED
          BY <2>5, <5>4
      <4>4. CASE n \in Len(sink) + 1 .. Len(sink')
        <5>1. PICK i \in 1 .. Len(pending) : sink'[n] = Chunk[i] /\ IsNew(i)
          BY <4>2, <4>4
        <5>2. p = Start + i
          BY <4>1, <5>1, ChunkIsRows DEF RecordOf
        <5>3. p <= read
          BY <2>5, <5>2
        <5>. QED
          BY <2>5, <5>3
      <4>. QED
        BY <4>2, <4>3, <4>4
    <3>4. ASSUME NEW p \in 1 .. Count(jb), p <= top
          PROVE  RowId(jb, p) \in seen'
      <4>1. CASE p <= m
        BY <2>4, <3>2, <4>1 DEF Marked
      <4>2. CASE ~(p <= m)
        <5>1. p \in 1 .. read
          BY <2>5, <3>4, <4>2
        <5>2. UpTo(Start)
          BY <2>1 DEF HttpRows
        <5>3. \A a : a = read => UpTo(a)'
          BY <2>1, <2>16, <5>2, ChunkLands
        <5>4. RowId(jb, p) # None /\ jb' = jb
          BY <2>1, <2>6
        <5>. QED
          BY <5>1, <5>3, <5>4 DEF UpTo, Known
      <4>. QED
        BY <4>1, <4>2
    <3>5. \A p \in 1 .. Count(jb') : RowId(jb', p) \in seen' <=> p <= top
      BY <2>1, <3>3, <3>4
    <3>. HIDE DEF top
    <3>6. \A a : a = top => Marked(a)'
      <4>1. ASSUME NEW a, a = top
            PROVE  Reached(a)' /\ \A p \in 1 .. Count(jb') : RowId(jb', p) \in seen' <=> p <= a
        BY <3>1, <3>5, <4>1
      <4>. QED
        BY <4>1 DEF Marked
    <3>. QED
      BY <2>12, <3>1, <3>6
  <2>. QED
    BY <2>1, <2>15, <2>16
<1>5. CASE SendHttp /\ UNCHANGED <<jb, sink, service>>
  <2>1. UNCHANGED runs
    BY <1>5, SendHttpDoes
  <2>. QED
    BY <1>1, <1>5, <2>1 DEF Grown
<1>. QED
  BY <1>2, <1>3, <1>4, <1>5 DEF Next
-----------------------------------------------------------------------------
(* The order of the rows in the log, when they have no ids                 *)

\* The service knows the seqs of the first chunks, those this run has sent
\* among them.
SeqsInOrder ==
  jb.transport = "http" =>
    /\ \A k \in ledger : \A j \in 0 .. k : j \in ledger
    /\ phase = "running" => \A j \in Nat : j < seq => j \in ledger

\* The log is in order, and has come to the end of what this run has sent and
\* of the chunks whose seqs are known.
BarePlaces ==
  jb.transport = "http" /\ ~Grown /\ HasNoIds(jb) =>
    /\ InOrder /\ (phase \in {"running", "done"} => Reached(Start))
    /\ \A k \in ledger : \E n \in 1 .. Len(runs) : \E a \in Nat :
         CutAt(jb, runs[n], k + 1, a) /\ Reached(a)

\* Each step keeps the seqs the service knows without a gap.
LEMMA SeqsInOrderNext ==
  ASSUME Base, SeqsInOrder, [Next]_vars
  PROVE  SeqsInOrder'
<1>1. CASE SendHttp
  <2>1. /\ jb.transport = "http" /\ phase = "running" /\ jb' = jb
        /\ ledger' = ledger \/ ledger' = ledger \cup {seq}
        /\ (Sent /\ seq \in ledger') \/ Broken
    BY <1>1, SendHttpDoes DEF LandsBare, service
  <2>2. /\ \A k \in ledger : \A j \in 0 .. k : j \in ledger
        /\ \A j \in Nat : j < seq => j \in ledger
    BY <2>1 DEF SeqsInOrder
  <2>3. seq \in Nat /\ \A j \in 0 .. seq : j \in Nat /\ (j < seq \/ j = seq)
    BY Places
  <2>4. \A k \in ledger' : \A j \in 0 .. k : j \in ledger'
    BY <2>1, <2>2, <2>3
  <2>5. CASE Sent /\ seq \in ledger'
    <3>1. seq' = seq + 1 /\ \A k \in ledger : k \in ledger'
      BY <2>1, <2>5 DEF Sent
    <3>2. \A j \in Nat : j < seq' => j < seq \/ j = seq
      BY <2>3, <3>1
    <3>. QED
      BY <2>2, <2>4, <2>5, <3>1, <3>2 DEF SeqsInOrder
  <2>6. CASE Broken
    BY <2>4, <2>6 DEF Broken, SeqsInOrder
  <2>. QED
    BY <2>1, <2>5, <2>6
<1>2. CASE SendFile
  BY <1>2, SendFileDoes DEF SeqsInOrder
<1>3. CASE Run
  BY <1>3 DEF Run, service, SeqsInOrder
<1>4. CASE TakeRow \/ SendRaises \/ Return \/ UNCHANGED vars
  BY <1>4 DEF TakeRow, SendRaises, Broken, Return, vars, service, SeqsInOrder
<1>. QED
  BY <1>1, <1>2, <1>3, <1>4 DEF Next

\* A chunk whose seq is not known lands whole, behind what the service has.
LEMMA BareLands ==
  ASSUME Base, RunCuts, SeqsInOrder, BarePlaces, ~Grown, HasNoIds(jb), SendHttp,
         Lands \/ LandsBare, NEW known, known \subseteq ledger \cup {seq}
  PROVE  /\ InOrder' /\ \A a : a \in Nat /\ a <= read => Reached(a)'
         /\ \A k \in known : \E n \in 1 .. Len(runs) : \E a \in Nat :
              CutAt(jb, runs[n], k + 1, a) /\ Reached(a)'
<1>1. /\ jb.transport = "http" /\ phase = "running" /\ Due /\ ChunkBuildable /\ jb' = jb
      /\ Commit(Chunk) /\ seq \notin ledger
  BY SendHttpDoes DEF Lands, LandsBare
<1>2. InOrder /\ Reached(Start)
  BY <1>1 DEF BarePlaces
<1>3. /\ Start \in Nat /\ read \in Nat /\ Len(pending) \in Nat /\ Start + Len(pending) = read
      /\ seq \in Nat /\ jb \in Cases /\ Len(runs) \in 1 .. Len(runs)
      /\ Last(runs) = runs[Len(runs)]
  BY <1>1, Places DEF Last
<1>4. InOrder' /\ \A a : a = read => Reached(a)'
  <2>1. 0 \in 0 .. Len(pending) /\ Reached(Start + 0)
    <3>1. Start + 0 = Start
      BY <1>3
    <3>. QED
      BY <1>2, <1>3, <3>1
  <2>2. \A i \in 1 .. Len(pending) : IsNew(i) <=> i > 0
    <3>1. \A i \in 1 .. Len(pending) : Chunk[i].fact.id = None
      BY <1>3, ChunkIsRows, IdsOfRows
    <3>. QED
      BY <3>1 DEF IsNew
  <2>. QED
    BY <1>1, <1>2, <2>1, <2>2, CommitInOrder
<1>5. At(Len(sink))' \in Nat
  <2>1. Base'
    BY BaseNext DEF Next
  <2>2. /\ Len(sink') \in Nat /\ jb' \in Cases
        /\ \A n \in 1 .. Len(sink') : sink'[n] \in Records(jb')
    BY <2>1 DEF Base
  <2>3. Count(jb') \in Nat
    BY <2>2, JobRowsAreRaw
  <2>4. \A n \in 1 .. Len(sink') : sink'[n].row \in Nat
    BY <2>2, <2>3, RecordIsRow
  <2>. QED
    BY <2>2, <2>4 DEF At
<1>6. \A a : a \in Nat /\ a <= read => Reached(a)'
  BY <1>3, <1>4, <1>5 DEF Reached
<1>7. ASSUME NEW k \in ledger \cup {seq}
      PROVE  \E a \in Nat : CutAt(jb, Last(runs), k + 1, a) /\ a <= read
  <2>1. CASE k = seq
    BY <1>1, <1>3, <2>1, DueIsCut
  <2>2. CASE k \in ledger
    <3>1. k \in Nat
      BY <2>2 DEF Base
    <3>2. ~(seq <= k)
      <4>1. SUFFICES ASSUME seq <= k PROVE FALSE
        OBVIOUS
      <4>2. seq \in 0 .. k
        BY <1>3, <3>1, <4>1
      <4>. QED
        BY <1>1, <2>2, <4>2 DEF SeqsInOrder
    <3>3. k + 1 \in 0 .. seq
      BY <1>3, <3>1, <3>2
    <3>4. CutAt(jb, Last(runs), seq, Start)
      BY <1>1 DEF RunCuts
    <3>5. PICK a : CutAt(jb, Last(runs), k + 1, a) /\ a \in Nat /\ a <= Start
      BY <1>3, <3>3, <3>4, CutBefore
    <3>. QED
      BY <1>3, <3>5
  <2>. QED
    BY <2>1, <2>2
<1>8. ASSUME NEW k \in known
      PROVE  \E n \in 1 .. Len(runs) : \E a \in Nat :
               CutAt(jb, runs[n], k + 1, a) /\ Reached(a)'
  <2>1. PICK a \in Nat : CutAt(jb, Last(runs), k + 1, a) /\ a <= read
    BY <1>7
  <2>2. CutAt(jb, runs[Len(runs)], k + 1, a) /\ Reached(a)'
    BY <1>3, <1>6, <2>1
  <2>. QED
    BY <1>3, <2>2
<1>. QED
  BY <1>4, <1>6, <1>8

\* Each step keeps the log of rows without ids in order, and beyond what the
\* service knows.
LEMMA BarePlacesNext ==
  ASSUME Base, RunCuts, SeqsInOrder, BarePlaces, [Next]_vars
  PROVE  BarePlaces'
<1>0. ASSUME UNCHANGED sink, NEW a, Reached(a)
      PROVE  Reached(a)'
  BY <1>0 DEF Reached, At
<1>1. CASE Run \/ TakeRow \/ SendRaises \/ Return \/ UNCHANGED vars
  <2>1. /\ UNCHANGED <<jb, sink, ledger>>
        /\ phase' \in {"running", "done"} =>
             Start' = 0 \/ (Start' = Start /\ phase \in {"running", "done"})
    BY <1>1, StartMoves DEF service
  <2>2. /\ ~Grown' => ~Grown
        /\ \A n \in 1 .. Len(runs) : n \in 1 .. Len(runs') /\ runs'[n] = runs[n]
    <3>1. CASE Run
      <4>1. PICK l \in Limits : runs' = Append(runs, l)
        BY <3>1 DEF Run
      <4>2. runs \in Seq(Limits)
        BY DEF Base
      <4>. QED
        BY <3>1, <4>1, <4>2, GrownStays
    <3>2. CASE UNCHANGED runs
      BY <3>2 DEF Grown
    <3>. QED
      BY <1>1, <3>1, <3>2 DEF TakeRow, SendRaises, Return, vars
  <2>3. At(Len(sink)) >= 0
    <3>1. Len(sink) \in 0 .. Len(sink)
      BY PlacesInSink
    <3>. QED
      BY <3>1, PlacesInSink
  <2>4. InOrder' = InOrder
    BY <2>1 DEF InOrder, At
  <2>5. Reached(Start) /\ Start' = Start => Reached(Start)'
    BY <2>1 DEF Reached, At
  <2>6. Start' = 0 => Reached(Start)'
    BY <2>1, <2>3 DEF Reached, At
  <2>7. ASSUME NEW k \in ledger, ~Grown, jb.transport = "http", HasNoIds(jb)
        PROVE  \E n \in 1 .. Len(runs') : \E a \in Nat :
                 CutAt(jb, runs'[n], k + 1, a) /\ Reached(a)'
    <3>1. PICK n \in 1 .. Len(runs) : \E a \in Nat : CutAt(jb, runs[n], k + 1, a) /\ Reached(a)
      BY <2>7 DEF BarePlaces
    <3>2. PICK a \in Nat : CutAt(jb, runs[n], k + 1, a) /\ Reached(a)
      BY <3>1
    <3>3. n \in 1 .. Len(runs') /\ CutAt(jb, runs'[n], k + 1, a) /\ Reached(a)'
      BY <1>0, <2>1, <2>2, <3>2
    <3>. QED
      BY <3>3
  <2>. QED
    BY <2>1, <2>2, <2>4, <2>5, <2>6, <2>7 DEF BarePlaces
<1>2. CASE SendHttp
  <2>1. /\ jb.transport = "http" /\ phase = "running" /\ Due /\ UNCHANGED <<jb, runs>>
        /\ \/ UNCHANGED <<sink, service>> /\ (Broken \/ (seq \in ledger /\ Sent))
           \/ /\ Lands \/ LandsBare
              /\ ledger' = ledger \/ ledger' = ledger \cup {seq}
              /\ Sent \/ Broken
    BY <1>2, SendHttpDoes DEF LandsBare
  <2>2. Grown' <=> Grown
    BY <2>1 DEF Grown
  <2>. SUFFICES ASSUME ~Grown, HasNoIds(jb)
                PROVE  /\ InOrder' /\ (phase' \in {"running", "done"} => Reached(Start)')
                       /\ \A k \in ledger' : \E n \in 1 .. Len(runs) : \E a \in Nat :
                            CutAt(jb, runs[n], k + 1, a) /\ Reached(a)'
    BY <2>1, <2>2 DEF BarePlaces
  <2>3. /\ InOrder /\ Reached(Start)
        /\ \A k \in ledger : \E n \in 1 .. Len(runs) : \E a \in Nat :
             CutAt(jb, runs[n], k + 1, a) /\ Reached(a)
    BY <2>1 DEF BarePlaces
  <2>4. /\ Sent => Start' = read
        /\ Broken => phase' \notin {"running", "done"}
    BY <2>1, StartSent DEF Sent, Broken
  <2>5. CASE UNCHANGED <<sink, service>>
    <3>1. InOrder' /\ ledger' = ledger
      BY <2>3, <2>5 DEF InOrder, At, service
    <3>2. \A k \in ledger : \E n \in 1 .. Len(runs) : \E a \in Nat :
            CutAt(jb, runs[n], k + 1, a) /\ Reached(a)'
      BY <1>0, <2>3, <2>5
    <3>3. ASSUME Sent, seq \in ledger PROVE Reached(read)
      <4>1. PICK n \in 1 .. Len(runs) : \E a \in Nat : CutAt(jb, runs[n], seq + 1, a) /\ Reached(a)
        BY <2>3, <3>3
      <4>2. PICK a \in Nat : CutAt(jb, runs[n], seq + 1, a) /\ Reached(a)
        BY <4>1
      <4>3. read <= a
        BY <2>1, <4>2, KnownIsSooner
      <4>4. At(Len(sink)) \in Nat /\ read \in Nat
        <5>1. Len(sink) \in 0 .. Len(sink)
          BY PlacesInSink
        <5>. QED
          BY <5>1, PlacesInSink, Places
      <4>. QED
        BY <4>2, <4>3, <4>4 DEF Reached
    <3>4. phase' \in {"running", "done"} => Reached(Start)'
      <4>1. CASE Broken
        BY <2>4, <4>1
      <4>2. CASE Sent /\ seq \in ledger
        BY <2>4, <2>5, <3>3, <4>2 DEF Reached, At
      <4>3. Broken \/ (Sent /\ seq \in ledger)
        <5>1. Lands \/ LandsBare => seq \notin ledger
          BY DEF Lands, LandsBare
        <5>2. CASE Lands \/ LandsBare
          <6>1. CASE Sent
            <7>1. SendHttp /\ Sent => seq \in ledger'
              BY SendHttpDoes DEF service, Sent, Broken, Lands, LandsBare
            <7>. QED
              BY <1>2, <3>1, <6>1, <7>1
          <6>. QED
            BY <2>1, <6>1
        <5>. QED
          BY <2>1, <5>2
      <4>. QED
        BY <4>1, <4>2, <4>3
    <3>. QED
      BY <3>1, <3>2, <3>4
  <2>6. CASE (Lands \/ LandsBare) /\ (Sent \/ Broken)
             /\ (ledger' = ledger \/ ledger' = ledger \cup {seq})
    <3>1. ledger' \subseteq ledger \cup {seq}
      BY <2>6
    <3>2. /\ InOrder' /\ \A a : a \in Nat /\ a <= read => Reached(a)'
          /\ \A k \in ledger' : \E n \in 1 .. Len(runs) : \E a \in Nat :
               CutAt(jb, runs[n], k + 1, a) /\ Reached(a)'
      BY <1>2, <2>6, <3>1, BareLands
    <3>3. Start \in Nat /\ read \in Nat /\ Start <= read /\ read <= read
      BY Places
    <3>4. phase' \in {"running", "done"} => Reached(Start)'
      <4>1. CASE Sent
        <5>1. \A a : a = read => Reached(a)'
          BY <3>2, <3>3
        <5>. QED
          BY <2>4, <4>1, <5>1 DEF Reached
      <4>. QED
        BY <2>4, <2>6, <4>1
    <3>. QED
      BY <3>2, <3>4
  <2>. QED
    BY <2>1, <2>5, <2>6
<1>3. CASE SendFile
  BY <1>3, SendFileDoes DEF BarePlaces
<1>. QED
  BY <1>1, <1>2, <1>3 DEF Next
-----------------------------------------------------------------------------
(* The table that is left                                                  *)

\* A job that is done has left its rows in order, up to the last one.
LEMMA DoneInOrder ==
  ASSUME Base, Marks, RunCuts, HttpRows, FilePlaces, MarkPlaces, BarePlaces, IdsAreUniform,
         phase = "done", ~HasGarbage,
         jb.transport = "http" => ~Grown /\ \A p \in DOMAIN Rows : ~TakenForAnother(p)
  PROVE  InOrder /\ Reached(Count(jb))
<1>1. Start = Count(jb) /\ Count(jb) \in Nat /\ jb \in Cases /\ jb.transport \in {"file", "http"}
  BY Places, CasesAssumption DEF RunCuts
<1>2. CASE jb.transport = "file"
  BY <1>1, <1>2 DEF FilePlaces
<1>3. CASE jb.transport = "http" /\ HasIds(jb)
  <2>1. DOMAIN Rows = 1 .. Count(jb) /\ \A p : IdAt(p) = RowId(jb, p)
    <3>1. Rows = JobRows(jb) /\ JobRows(jb) \in Seq(ToSet(StrippedRows(jb)))
      BY <1>1, JobRowsAreRaw DEF Rows, JobRows
    <3>. QED
      BY <3>1 DEF Count, IdAt, RowId
  <2>2. DOMAIN sink = 1 .. Len(sink) /\ \A n \in 1 .. Len(sink) : sink[n] \in Records(jb)
    BY DEF Base
  <2>3. \A p \in 1 .. Count(jb) : RowId(jb, p) # None
    BY <1>1, <1>3, IdsOfRows
  <2>4. Clean
    <3>1. SUFFICES ASSUME NEW p \in 1 .. Count(jb), RowId(jb, p) \in seen
                   PROVE  \E n \in 1 .. Len(sink) : n \notin unmarked /\ sink[n].row = p
      BY DEF Clean
    <3>2. PICK n \in 1 .. Len(sink) : n \notin unmarked /\ sink[n].fact.id = RowId(jb, p)
      BY <1>3, <3>1 DEF Marks
    <3>3. sink[n].row # 0
      BY <1>3 DEF Marks
    <3>. DEFINE r == sink[n].row
    <3>4. r \in 1 .. Count(jb) /\ sink[n].fact.id = RowId(jb, r)
      BY <1>1, <2>2, <3>3, RecordIsRow
    <3>. HIDE DEF r
    <3>5. CASE r = p
      BY <3>2, <3>5 DEF r
    <3>6. CASE r # p
      <4>1. ~TakenForAnother(p)
        BY <1>3, <2>1
      <4>2. IdAt(p) # None /\ r \in DOMAIN Rows \ {p} /\ IdAt(r) = IdAt(p)
        BY <2>1, <2>3, <3>2, <3>4, <3>6
      <4>. QED
        BY <2>2, <4>1, <4>2 DEF TakenForAnother
    <3>. QED
      BY <3>5, <3>6
  <2>5. PICK m \in Nat : InOrder /\ Marked(m)
    BY <1>3, <2>4 DEF MarkPlaces
  <2>6. Count(jb) <= m
    <3>1. CASE Count(jb) = 0
      BY <1>1, <3>1
    <3>2. CASE Count(jb) # 0
      <4>1. Count(jb) \in 1 .. Count(jb) /\ Count(jb) \in 1 .. Start
        BY <1>1, <3>2
      <4>2. RowId(jb, Count(jb)) \in seen
        BY <1>3, <2>3, <4>1 DEF HttpRows, UpTo, Known
      <4>. QED
        BY <2>5, <4>1, <4>2 DEF Marked
    <3>. QED
      BY <3>1, <3>2
  <2>7. At(Len(sink)) \in Nat
    <3>1. Len(sink) \in 0 .. Len(sink)
      BY PlacesInSink
    <3>. QED
      BY <3>1, PlacesInSink
  <2>. QED
    BY <1>1, <2>5, <2>6, <2>7 DEF Marked, Reached
<1>4. CASE jb.transport = "http" /\ HasNoIds(jb)
  BY <1>1, <1>4 DEF BarePlaces
<1>. QED
  BY <1>1, <1>2, <1>3, <1>4 DEF IdsAreUniform

BodyAt(p) == RecordOf(jb, p).fact.body
DeletedAt(p) == RecordOf(jb, p).fact.tombstone

\* No row after the p-th has its key.
LastOfRows(p) == \A r \in 1 .. Count(jb) : r > p => KeysDiffer(BodyAt(r), BodyAt(p))

\* Such a sink folds to the last rows of every key, and holds every row.
LEMMA FoldOfRows ==
  ASSUME Base, InOrder, Reached(Count(jb))
  PROVE  /\ Folded = {BodyAt(p) : p \in {r \in 1 .. Count(jb) : ~DeletedAt(r) /\ LastOfRows(r)}}
         /\ \A p \in 1 .. Count(jb) : SendableOf(jb, p)
<1>. DEFINE m == Len(sink)
            K == Count(jb)
            pos == [n \in 1 .. m |-> sink[n].row]
<1>1. /\ K \in Nat /\ m \in Nat /\ sink \in Seq(Records(jb)) /\ jb \in Cases
      /\ \A n \in 1 .. m : sink[n] \in Records(jb) /\ sink[n].row # 0
  BY Places DEF Base, InOrder
<1>2. \A n \in 1 .. m : sink[n].row \in 1 .. K /\ sink[n] = RecordOf(jb, sink[n].row)
                        /\ SendableOf(jb, sink[n].row)
  BY <1>1, RecordIsRow
<1>3. \A n \in 1 .. m : sink[n].row <= At(n - 1) + 1
  BY DEF InOrder
<1>4. At(m) >= K
  BY DEF Reached
<1>5. Folded = LastOfKeys(sink, m)
  BY <1>1, FoldIsLast
<1>. HIDE DEF m, K
<1>6. \A n \in 1 .. m : pos[n] = sink[n].row
  OBVIOUS
<1>7. /\ pos \in [1 .. m -> 1 .. K]
      /\ \A n \in 1 .. m : /\ sink[n].fact.body = BodyAt(pos[n])
                           /\ sink[n].fact.tombstone = DeletedAt(pos[n])
                           /\ SendableOf(jb, pos[n])
  BY <1>2 DEF BodyAt, DeletedAt
<1>8. m > 0 => pos[1] = 1
  <2>1. SUFFICES ASSUME m > 0 PROVE pos[1] = 1
    OBVIOUS
  <2>2. 1 \in 1 .. m /\ 1 - 1 = 0
    BY <1>1, <2>1
  <2>3. sink[1].row <= 1 /\ sink[1].row \in 1 .. K
    <3>1. sink[1].row <= At(1 - 1) + 1
      BY <1>3, <2>2
    <3>2. At(1 - 1) = 0
      BY <2>2 DEF At
    <3>. QED
      BY <1>2, <2>2, <3>1, <3>2
  <2>. QED
    BY <1>1, <1>6, <2>2, <2>3
<1>9. \A n \in 1 .. m : n + 1 \in 1 .. m => pos[n + 1] <= pos[n] + 1
  <2>1. ASSUME NEW n \in 1 .. m, n + 1 \in 1 .. m
        PROVE  pos[n + 1] <= pos[n] + 1
    <3>1. (n + 1) - 1 = n /\ n # 0
      OBVIOUS
    <3>2. sink[n + 1].row <= At((n + 1) - 1) + 1
      BY <1>3, <2>1
    <3>3. At((n + 1) - 1) = sink[n].row
      BY <3>1 DEF At
    <3>. HIDE DEF pos
    <3>. QED
      BY <1>6, <2>1, <3>2, <3>3
  <2>. QED
    BY <2>1
<1>10. K > 0 => m > 0 /\ pos[m] = K
  <2>1. SUFFICES ASSUME K > 0 PROVE m > 0 /\ pos[m] = K
    OBVIOUS
  <2>2. m # 0
    BY <1>1, <1>4, <2>1 DEF At
  <2>3. m \in 1 .. m /\ At(m) = sink[m].row
    BY <1>1, <2>2 DEF At
  <2>4. sink[m].row \in 1 .. K
    BY <1>2, <2>3
  <2>. QED
    BY <1>1, <1>4, <1>6, <2>3, <2>4
<1>. HIDE DEF pos
<1>11. Replays(pos, K, m)
  BY <1>7, <1>8, <1>9 DEF Replays
<1>12. ASSUME NEW a \in 1 .. m, NEW p \in 1 .. K, p > pos[a]
      PROVE  \E n \in 1 .. m : n > a /\ pos[n] = p
  <2>0. pos[a] \in 1 .. K
    BY <1>7
  <2>1. m \in a .. m /\ pos[m] = K /\ p \in Nat /\ p <= K
    BY <1>1, <1>10, <1>12
  <2>2. pos[a] < p /\ p <= pos[m]
    BY <1>1, <1>12, <2>0, <2>1
  <2>. QED
    BY <1>1, <1>11, <2>1, <2>2, ReplayPasses
<1>13. ASSUME NEW p \in 1 .. K
      PROVE  \E n \in 1 .. m : pos[n] = p
  <2>1. 1 \in 1 .. m /\ pos[1] = 1
    BY <1>1, <1>8, <1>10
  <2>2. CASE p = 1
    BY <2>1, <2>2
  <2>3. CASE p # 1
    <3>1. p > pos[1]
      BY <2>1, <2>3
    <3>. QED
      BY <1>12, <2>1, <3>1
  <2>. QED
    BY <2>2, <2>3
<1>. DEFINE Stays(i) == \A j \in 1 .. m : j > i => KeysDiffer(sink[j].fact.body, sink[i].fact.body)
<1>14. ASSUME NEW i \in 1 .. m, Stays(i)
      PROVE  LastOfRows(pos[i])
  <2>1. ASSUME NEW r \in 1 .. K, r > pos[i]
        PROVE  KeysDiffer(BodyAt(r), BodyAt(pos[i]))
    <3>1. PICK n \in 1 .. m : n > i /\ pos[n] = r
      BY <1>12, <2>1
    <3>. QED
      BY <1>7, <1>14, <3>1
  <2>. QED
    BY <2>1 DEF LastOfRows, K
<1>15. ASSUME NEW p \in 1 .. K, LastOfRows(p)
      PROVE  \E i \in 1 .. m : pos[i] = p /\ Stays(i)
  <2>1. PICK a \in 1 .. m : pos[a] = p
    BY <1>13
  <2>2. PICK i \in 1 .. m : pos[i] = p /\ \A j \in 1 .. m : j > i => pos[j] # p
    <3>1. \E i \in 1 .. m : pos[i] = pos[a] /\ \A j \in 1 .. m : j > i => pos[j] # pos[a]
      <4>1. m \in Nat
        BY <1>1
      <4>. QED
        BY <4>1, LastTime
    <3>. QED
      BY <2>1, <3>1
  <2>3. ASSUME NEW j \in 1 .. m, j > i
        PROVE  KeysDiffer(sink[j].fact.body, sink[i].fact.body)
    <3>1. pos[j] \in 1 .. K /\ pos[j] # p
      BY <1>7, <2>2, <2>3
    <3>2. ~(pos[j] < p)
      <4>1. SUFFICES ASSUME pos[j] < p PROVE FALSE
        OBVIOUS
      <4>2. PICK n \in 1 .. m : n > j /\ pos[n] = p
        BY <1>12, <3>1, <4>1
      <4>. QED
        BY <2>2, <2>3, <4>2
    <3>3. pos[j] > p
      BY <3>1, <3>2
    <3>4. KeysDiffer(BodyAt(pos[j]), BodyAt(p))
      BY <1>15, <3>1, <3>3 DEF LastOfRows, K
    <3>. QED
      BY <1>7, <2>2, <3>4
  <2>. QED
    BY <2>2, <2>3
<1>. DEFINE T == {BodyAt(p) : p \in {r \in 1 .. K : ~DeletedAt(r) /\ LastOfRows(r)}}
<1>16. \A x : x \in T <=> \E p \in 1 .. K : ~DeletedAt(p) /\ LastOfRows(p) /\ x = BodyAt(p)
  OBVIOUS
<1>17. \A x : x \in Folded <=>
         \E i \in 1 .. m : ~sink[i].fact.tombstone /\ x = sink[i].fact.body /\ Stays(i)
  BY <1>5 DEF LastOfKeys
<1>. HIDE DEF T, Stays
<1>18. ASSUME NEW x \in Folded
       PROVE  x \in T
  <2>1. PICK i \in 1 .. m : ~sink[i].fact.tombstone /\ x = sink[i].fact.body /\ Stays(i)
    BY <1>17
  <2>2. LastOfRows(pos[i]) /\ pos[i] \in 1 .. K
    BY <1>7, <1>14, <2>1
  <2>. QED
    BY <1>7, <1>16, <2>1, <2>2
<1>19. ASSUME NEW x \in T
       PROVE  x \in Folded
  <2>1. PICK p \in 1 .. K : ~DeletedAt(p) /\ LastOfRows(p) /\ x = BodyAt(p)
    BY <1>16
  <2>2. PICK i \in 1 .. m : pos[i] = p /\ Stays(i)
    BY <1>15, <2>1
  <2>. QED
    BY <1>7, <1>17, <2>1, <2>2
<1>20. Folded = T
  BY <1>18, <1>19
<1>21. \A p \in 1 .. K : SendableOf(jb, p)
  BY <1>7, <1>13
<1>. QED
  BY <1>20, <1>21 DEF T, K
\* The hinted column is one of the table's.
LEMMA HintIsColumn ==
  ASSUME jb \in Cases, DedupSort(jb.columns) # <<>>, NEW i \in 1 .. Count(jb)
  PROVE  /\ HintAt(jb, i) = ValueOf(i, DedupSort(jb.columns)[1].name)
         /\ HintAt(jb, i) \in {Cell(row, DedupSort(jb.columns)[1].name) :
                                 row \in ToSet(StrippedRows(jb))}
<1>. DEFINE cols == jb.columns
            V == ToSet(cols)
            I == {n \in DOMAIN cols : cols[n].sort # None}
            q == Picked(cols, I)
            k == Cardinality(I)
<1>1. cols \in Seq(V)
  BY CasesAssumption
<1>2. I \in SUBSET (1 .. Len(cols))
  BY <1>1
<1>3. DedupSort(jb.columns) = q
  BY DEF DedupSort
<1>. HIDE DEF V, I, cols
<1>4. q \in Seq(V) /\ Len(q) = k /\ k \in Nat
  BY <1>1, <1>2, PickedIsSelection
<1>. HIDE DEF q, k
<1>5. q # <<>>
  BY <1>3
<1>6. q[1] \in V
  <2>1. 1 \in 1 .. Len(q)
    BY <1>4, <1>5
  <2>. QED
    BY <1>4, <2>1
<1>7. DedupSort(jb.columns)[1].name \in ColumnNames(jb)
  BY <1>3, <1>6 DEF ColumnNames, V, cols
<1>8. StrippedRows(jb)[i] \in ToSet(StrippedRows(jb))
  <2>1. DOMAIN StrippedRows(jb) = 1 .. Count(jb)
    BY StrippedIsRaw, RowsInOrder
  <2>. QED
    BY <2>1 DEF ToSet
<1>. QED
  BY <1>7, <1>8, CellsOfRow DEF HintAt

\* Where Python orders what is stripped as the column's type does, rows are
\* sent in that order.
LEMMA SoonerComesBefore ==
  ASSUME jb \in Cases, SortAgrees, NEW i \in 1 .. Count(jb), NEW j \in 1 .. Count(jb)
  PROVE  /\ Sooner(jb, i, j) <=> ComesAfter(j, i)
         /\ ~(Sooner(jb, i, j) /\ Sooner(jb, j, i))
<1>0. i \in Int /\ j \in Int /\ DOMAIN Raw = 1 .. Count(jb)
  BY StrippedIsRaw, RowsInOrder DEF Raw, RawRows
<1>1. CASE DedupSort(jb.columns) = <<>>
  BY <1>0, <1>1 DEF Sooner, ComesAfter
<1>2. CASE DedupSort(jb.columns) # <<>>
  <2>. DEFINE hint == DedupSort(jb.columns)[1]
              values == {Cell(row, hint.name) : row \in ToSet(StrippedRows(jb))} \ {None}
              Val(m) == ValueOf(m, hint.name)
              Raw1(m) == Raw[m][hint.name].value
              N == 1 .. Count(jb)
  <2>1. \A m \in N : HintAt(jb, m) = Val(m) /\ (Val(m) # None => Val(m) \in values)
    BY <1>2, HintIsColumn
  <2>2. \A m, n \in N : Val(m) # None /\ Val(n) # None =>
          (Below(Val(m), Val(n)) <=> Less(Raw1(m), Raw1(n)))
    BY <1>0, <1>2 DEF SortAgrees
  <2>3. \A x, y \in values : ~(Below(x, y) /\ Below(y, x))
    BY <1>2, SortAssumption
  <2>4. \A m, n \in N : Precedes(m, n) <=>
          /\ Val(m) # None
          /\ \/ Val(n) = None
             \/ IF hint.sort = "asc" THEN Less(Raw1(m), Raw1(n)) ELSE Less(Raw1(n), Raw1(m))
    BY DEF Precedes
  <2>5. \A m, n \in N : HintLess(jb, m, n) <=>
          /\ Val(m) # None
          /\ \/ Val(n) = None
             \/ IF hint.sort = "asc" THEN Below(Val(m), Val(n)) ELSE Below(Val(n), Val(m))
    BY <2>1 DEF HintLess
  <2>6. /\ Sooner(jb, i, j) <=> HintLess(jb, i, j) \/ (~HintLess(jb, j, i) /\ i < j)
        /\ Sooner(jb, j, i) <=> HintLess(jb, j, i) \/ (~HintLess(jb, i, j) /\ j < i)
        /\ ComesAfter(j, i) <=> Precedes(i, j) \/ (~Precedes(j, i) /\ i < j)
    BY <1>2 DEF Sooner, ComesAfter
  <2>. HIDE DEF hint, values, Val, Raw1, N
  <2>7. i \in N /\ j \in N
    BY DEF N
  <2>8. \A m, n \in N : HintLess(jb, m, n) <=> Precedes(m, n)
    BY <2>2, <2>4, <2>5
  <2>9. ~(HintLess(jb, i, j) /\ HintLess(jb, j, i))
    BY <2>1, <2>3, <2>5, <2>7
  <2>. QED
    BY <1>0, <2>6, <2>7, <2>8, <2>9
<1>. QED
  BY <1>1, <1>2

\* The last rows of every key, as they are sent, are the table of the file.
LEMMA LastRowsAreTable ==
  ASSUME jb \in Cases, IdsAreNotKeys, KeysTellApart, SortAgrees,
         \A p \in 1 .. Count(jb) : SendableOf(jb, p)
  PROVE  {BodyAt(p) : p \in {r \in 1 .. Count(jb) : ~DeletedAt(r) /\ LastOfRows(r)}} = TableOfFile
<1>. DEFINE N == 1 .. Count(jb)
            T == {BodyAt(p) : p \in {r \in N : ~DeletedAt(r) /\ LastOfRows(r)}}
            KeyAt(i) == [k \in Keys |-> ValueOf(i, k)]
            Beaten(i) == \E j \in N : SameKey(i, j) /\ ComesAfter(j, i)
<1>1. PICK from : SentFrom(jb, from)
  BY RowsInOrder
<1>2. from \in Bijection(N, N) /\ \A m, n \in N : m < n => Sooner(jb, from[m], from[n])
  BY <1>1 DEF SentFrom
<1>3. DOMAIN Raw = N
  BY StrippedIsRaw, RowsInOrder DEF Raw, RawRows
<1>4. /\ \A n \in N : from[n] \in N
      /\ \A i \in N : \E n \in N : from[n] = i
  <2>. HIDE DEF N
  <2>. QED
    BY <1>2, Fun_BijectionProperties
<1>5. \A x : x \in T <=> \E p \in N : ~DeletedAt(p) /\ LastOfRows(p) /\ x = BodyAt(p)
  OBVIOUS
<1>6. \A x : x \in TableOfFile <=> \E i \in N : ~Deleted(i) /\ ~Beaten(i) /\ x = FactOf(i).body
  BY <1>3 DEF TableOfFile
<1>7. ASSUME NEW p \in N
      PROVE  /\ BodyAt(p) = FactOf(from[p]).body /\ DeletedAt(p) = Deleted(from[p])
             /\ KeyOf(BodyAt(p)) = KeyAt(from[p])
  <2>1. /\ RecordOf(jb, p).fact = FactOf(from[p])
        /\ \A k \in Keys : Cell(FactOf(from[p]).body, k) = ValueOf(from[p], k)
    BY <1>1, FactsOfRows
  <2>2. FactOf(from[p]).tombstone = Deleted(from[p])
    BY DEF FactOf
  <2>. QED
    BY <2>1, <2>2 DEF BodyAt, DeletedAt, KeyOf
<1>8. ASSUME NEW i \in N, NEW j \in N
      PROVE  Joined(KeyAt(i)) = Joined(KeyAt(j)) <=> SameKey(i, j)
  <2>1. SameKey(i, j) => KeyAt(i) = KeyAt(j)
    BY DEF SameKey
  <2>2. ~SameKey(i, j) => Joined(KeyAt(i)) # Joined(KeyAt(j))
    BY <1>3 DEF KeysTellApart
  <2>. HIDE DEF KeyAt
  <2>. QED
    BY <2>1, <2>2
<1>9. \A n \in N : n \in Int
  OBVIOUS
<1>10. \A i, j \in N : (Sooner(jb, i, j) <=> ComesAfter(j, i))
                       /\ ~(Sooner(jb, i, j) /\ Sooner(jb, j, i))
  BY SoonerComesBefore
<1>11. ASSUME NEW p \in N
       PROVE  LastOfRows(p) <=> \A r \in N : r > p => KeysDiffer(BodyAt(r), BodyAt(p))
  BY DEF LastOfRows
<1>. HIDE DEF N, T, KeyAt
<1>12. ASSUME NEW p \in N, NEW r \in N
       PROVE  /\ KeysDiffer(BodyAt(r), BodyAt(p)) <=> ~SameKey(from[p], from[r])
              /\ r > p <=> ComesAfter(from[r], from[p])
  <2>0. from[p] \in N /\ from[r] \in N
    BY <1>4
  <2>1. KeysDiffer(BodyAt(r), BodyAt(p)) <=> ~SameKey(from[p], from[r])
    BY <1>7, <1>8, <2>0 DEF KeysDiffer
  <2>2. r > p => Sooner(jb, from[p], from[r])
    BY <1>2, <1>9
  <2>3. r < p => Sooner(jb, from[r], from[p])
    BY <1>2, <1>9
  <2>4. ~(Sooner(jb, from[p], from[r]) /\ Sooner(jb, from[r], from[p]))
        /\ (Sooner(jb, from[p], from[r]) <=> ComesAfter(from[r], from[p]))
    BY <1>10, <2>0
  <2>5. r = p \/ r > p \/ r < p
    BY <1>9
  <2>6. r = p => ~Sooner(jb, from[p], from[r]) /\ ~(r > p)
    BY <1>9, <2>4
  <2>7. ~(r > p /\ r < p)
    BY <1>9
  <2>. QED
    BY <2>1, <2>2, <2>3, <2>4, <2>5, <2>6, <2>7
<1>13. ASSUME NEW p \in N
       PROVE  LastOfRows(p) <=> ~Beaten(from[p])
  <2>1. \A r \in N : (r > p => KeysDiffer(BodyAt(r), BodyAt(p)))
                       <=> ~(SameKey(from[p], from[r]) /\ ComesAfter(from[r], from[p]))
    BY <1>12
  <2>2. Beaten(from[p]) <=> \E r \in N : SameKey(from[p], from[r]) /\ ComesAfter(from[r], from[p])
    BY <1>4
  <2>. QED
    BY <1>11, <2>1, <2>2
<1>. HIDE DEF Beaten
<1>14. ASSUME NEW x
       PROVE  x \in T <=> x \in TableOfFile
  <2>1. ASSUME x \in T PROVE x \in TableOfFile
    <3>1. PICK p \in N : ~DeletedAt(p) /\ LastOfRows(p) /\ x = BodyAt(p)
      BY <1>5, <2>1
    <3>. QED
      BY <1>4, <1>6, <1>7, <1>13, <3>1
  <2>2. ASSUME x \in TableOfFile PROVE x \in T
    <3>1. PICK i \in N : ~Deleted(i) /\ ~Beaten(i) /\ x = FactOf(i).body
      BY <1>6, <2>2
    <3>2. PICK p \in N : from[p] = i
      BY <1>4
    <3>. QED
      BY <1>5, <1>7, <1>13, <3>1, <3>2
  <2>. QED
    BY <2>1, <2>2
<1>. QED
  BY <1>14 DEF T, N

\* A keyed table folds from the sink of a job that is done to what its file
\* describes, wherever runs before have broken off and however they cut the
\* file, and although rows are in the log twice: in a local file without a torn
\* line for any rows, and in the log for rows that all have ids or all have
\* none, unless chunks have grown or a row was taken for another with its id.
\* Where the text of keys or of the values of a hinted column misleads, the
\* property says nothing.
THEOREM TableIsFolded ==
  ASSUME IdsAreUniform, IdsAreNotKeys
  PROVE  Spec => []FoldedSinkIsTable
<1>. DEFINE Inv == /\ Marks /\ RunCuts /\ HttpRows
                   /\ FilePlaces /\ MarkPlaces /\ SeqsInOrder /\ BarePlaces
<1>1. ASSUME Init PROVE Inv
  <2>1. RunCuts /\ HttpRows /\ Marks
    BY <1>1, CutsStart, MarksStart
  <2>2. Len(sink) = 0 /\ phase = "waiting" /\ seen = {} /\ ledger = {}
    BY <1>1 DEF Init
  <2>3. InOrder /\ Reached(0)
    BY <2>2 DEF InOrder, Reached, At
  <2>4. jb \in Cases /\ Count(jb) \in Nat
    BY <1>1, BaseStart, Places
  <2>5. MarkPlaces
    <3>1. Marked(0)
      BY <2>2, <2>3, <2>4 DEF Marked
    <3>. QED
      BY <2>3, <3>1 DEF MarkPlaces
  <2>. QED
    BY <2>1, <2>2, <2>3, <2>5 DEF FilePlaces, SeqsInOrder, BarePlaces
<1>2. Base /\ Inv /\ [Next]_vars => Inv'
  BY MarksNext, RunCutsNext, HttpRowsNext, FilePlacesNext, MarkPlacesNext, SeqsInOrderNext,
     BarePlacesNext
<1>3. ASSUME Base, Inv PROVE FoldedSinkIsTable
  <2>. SUFFICES ASSUME phase = "done", ~HasGarbage, KeysTellApart, SortAgrees,
                       jb.transport = "http" => ~Grown /\ \A p \in DOMAIN Rows : ~TakenForAnother(p)
                PROVE  Folded = TableOfFile
    BY DEF FoldedSinkIsTable
  <2>1. InOrder /\ Reached(Count(jb)) /\ jb \in Cases
    BY <1>3, DoneInOrder DEF Base
  <2>. QED
    BY <1>3, <2>1, FoldOfRows, LastRowsAreTable
<1>. QED
  BY <1>1, <1>2, <1>3, BaseStart, BaseNext, PTL DEF Spec
=============================================================================
