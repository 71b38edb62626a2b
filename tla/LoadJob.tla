------------------------------- MODULE LoadJob -------------------------------
(***************************************************************************)
(* One load job: MatterbeamLoadJob.run reads a load file, translates its   *)
(* rows with the operators of envelope.py, cuts them into chunks and sends *)
(* those by either transport.  dlt (external) runs the job again from its  *)
(* start after an error or a restart, and between two runs the user may    *)
(* have changed the chunk limits, so that the file is cut elsewhere.       *)
(*                                                                         *)
(* A cell of a raw row carries the type marker (PUA) that typed-jsonl puts *)
(* before some values, which become text when it is taken off.  The size   *)
(* of a row in bytes is its number of cells.  The ingest service is here   *)
(* what IngestServer shows it to be towards a single job: it knows chunks  *)
(* by the seqs in its ledger and rows by the _dlt_ids it has marked.       *)
(***************************************************************************)
EXTENDS Ordering, SequencesExt

CONSTANTS
  Cases,    \* the jobs: [transport, columns, disposition, strategy, file]
  Limits,   \* the chunk limits there may be in a run: [records, bytes]
  MaxRuns,  \* bound on how often the job is run
  None,     \* null, and a hint that is not set
  Text(_),  \* what is left of a marked value without its marker
  Str(_),   \* Python's str() of a value, as a sequence of characters
  Below(_, _),  \* Python's < of two values that are no longer marked
  Less(_, _)    \* the order of two values as the type of their column has it

\* columns: the table's columns as records [name, primary, merge, hard, sort];
\* file: a sequence of lines, each a sequence of raw rows, <<>> when blank.
ASSUME CasesAssumption ==
  \A c \in Cases :
    /\ c.transport \in {"file", "http"} /\ c.columns # <<>> /\ c.columns \in Seq(ToSet(c.columns))
    /\ LET rows == UNION {ToSet(line) : line \in ToSet(c.file)}
       IN c.file \in Seq(Seq(rows)) /\ \A row \in rows : IsFiniteSet(DOMAIN row)
ASSUME LimitsAssumption ==
  MaxRuns \in Nat /\ \A l \in Limits : l.records \in Nat /\ l.bytes \in Nat

VARIABLES
  jb,       \* the job; it never changes
  phase,    \* "waiting" to be run, "running", "done" or "failed"
  runs,     \* history: the limits of the runs so far, the present one last
  read,     \* rows taken from the file in this run
  pending,  \* rows of the chunk being filled
  seq,      \* chunks sent in this run
  sink,     \* the log, or the local file: [fact, row], where row is history,
            \* the place of the fact's row in the order of sending
  torn,     \* the local file ends within a line
  seen,     \* the ids the service has marked (dlt_ids_seen)
  ledger,   \* seqs of the chunks the service has recorded
  unmarked  \* history: the positions in the log of facts that a handler has
            \* committed which broke off before it marked their ids

vars == <<jb, phase, runs, read, pending, seq, sink, torn, seen, ledger, unmarked>>

service == <<seen, ledger, unmarked>>

-----------------------------------------------------------------------------
(* envelope.py                                                             *)

KeyFields(cols) ==
  LET primary == {c.name : c \in {d \in ToSet(cols) : d.primary}}
  IN IF primary # {} THEN primary
     ELSE {c.name : c \in {d \in ToSet(cols) : d.merge}}

HardDeleteFields(cols) == {c.name : c \in {d \in ToSet(cols) : d.hard}}

\* The hinted columns; the first one decides.
DedupSort(cols) == Picked(cols, {i \in DOMAIN cols : cols[i].sort # None})

\* check_disposition raises; of a replace it only warns.
Refused(c) == c.disposition = "merge" /\ c.strategy = "scd2"

\* row.get(name)
Cell(row, name) == IF name \in DOMAIN row THEN row[name] ELSE None

SortRows_DropsOrder(rows, cols) == rows

\* A stable sort by the hinted column, rows without a value of it last.
SortRows(rows, cols) ==
  IF DedupSort(cols) = <<>> THEN rows
  ELSE LET hint == DedupSort(cols)[1]
           At(row) == Cell(row, hint.name)
           Before(a, b) ==
             /\ At(a) # None
             /\ \/ At(b) = None
                \/ IF hint.sort = "asc" THEN Below(At(a), At(b)) ELSE Below(At(b), At(a))
       IN SortedBy(rows, {p \in ToSet(rows) \X ToSet(rows) : Before(p[1], p[2])})

Stripped(cell) == IF cell.mark = "" THEN cell.value ELSE Text(cell.value)
StripPua(rec) == [name \in DOMAIN rec |-> Stripped(rec[name])]

\* iter_stripped_rows: the rows of all lines, without markers and without
\* what is no column of the table.
StrippedRows(c) ==
  LET recs == Flattened(c.file)
      columns == {d.name : d \in ToSet(c.columns)} \cup {"_dlt_id", "_dlt_load_id"}
  IN [i \in DOMAIN recs |-> Restrict(StripPua(recs[i]), DOMAIN recs[i] \cap columns)]

\* Python can order the values of a hinted column.
ASSUME SortAssumption ==
  \A c \in Cases : DedupSort(c.columns) # <<>> =>
    LET name == DedupSort(c.columns)[1].name
        values == {Cell(row, name) : row \in ToSet(StrippedRows(c))} \ {None}
    IN \A x, y, z \in values :
         /\ ~(Below(x, y) /\ Below(y, x))
         /\ Below(x, z) => Below(x, y) \/ Below(y, z)

\* A hard-delete column with a truthy value.
IsTombstone(row, hard) == \E name \in hard : Cell(row, name) \notin {None, FALSE}

\* _tombstone_and_body: a tombstone is cut down to its key.
Body(row, keys, hard) ==
  IF IsTombstone(row, hard) /\ keys # {} THEN Restrict(row, keys) ELSE row

\* The row's own id and load id are popped before the body is made.
Popped(row) == Restrict(row, DOMAIN row \ {"_dlt_id", "_dlt_load_id"})

\* A tombstone without its key is a KeyError.
Buildable(row, keys, hard) == IsTombstone(row, hard) => keys \subseteq DOMAIN row

\* build_record: the fact FileTransport writes, stamped by the client.
BuildRecord(row, keys, hard) ==
  [body |-> Body(Popped(row), keys, hard),
   tombstone |-> IsTombstone(Popped(row), hard), id |-> Cell(row, "_dlt_id")]

\* build_wire_record, and the fact the service makes of it.
BuildWireRecord(row, keys, hard) ==
  [v |-> Body(Popped(row), keys, hard),
   t |-> IsTombstone(Popped(row), hard), i |-> Cell(row, "_dlt_id")]
Stamped(w) == [body |-> w.v, tombstone |-> w.t, id |-> w.i]

-----------------------------------------------------------------------------
(* MatterbeamLoadJob.run                                                   *)

Init ==
  /\ jb \in Cases
  /\ phase = "waiting" /\ runs = <<>> /\ read = 0 /\ pending = <<>> /\ seq = 0
  /\ sink = <<>> /\ torn = FALSE /\ seen = {} /\ ledger = {} /\ unmarked = {}

Keys == KeyFields(jb.columns)
Hard == HardDeleteFields(jb.columns)
Rows == SortRows(StrippedRows(jb), jb.columns)

\* dlt runs the job, for the first time or again.
Run ==
  /\ phase = "waiting" /\ Len(runs) < MaxRuns
  /\ \E l \in Limits : runs' = Append(runs, l)
  /\ phase' = IF Refused(jb) THEN "failed" ELSE "running"
  /\ read' = 0 /\ pending' = <<>> /\ seq' = 0
  /\ UNCHANGED <<jb, sink, torn, service>>

Sizes(rows) == [i \in DOMAIN rows |-> Cardinality(DOMAIN rows[i])]
Bytes(rows) == Total(Sizes(rows))

\* The chunk being filled has reached one of its limits.
Full ==
  /\ pending # <<>>
  /\ \/ Len(pending) >= Last(runs).records
     \/ Bytes(pending) >= Last(runs).bytes

TakeRow ==
  /\ phase = "running" /\ ~Full /\ read < Len(Rows)
  /\ read' = read + 1
  /\ pending' = Append(pending, Rows[read + 1])
  /\ UNCHANGED <<jb, phase, runs, seq, sink, torn, service>>

Due_OnlyFull == Full

\* A chunk goes out when it is full, and at the end of the file when rows are
\* left or nothing was sent at all.
Due == Full \/ (read = Len(Rows) /\ (pending # <<>> \/ seq = 0))

\* send() returns.
Sent == seq' = seq + 1 /\ pending' = <<>> /\ UNCHANGED <<phase, read>>

\* send() raises, or the process is killed: the job will be run again.
Broken == phase' = "waiting" /\ UNCHANGED <<read, pending, seq>>

\* The facts made of the chunk's rows, with the places of these.
Placed(facts) ==
  [i \in DOMAIN facts |-> [fact |-> facts[i], row |-> read - Len(pending) + i]]

\* What becomes of recs when the file ends within a line: the first of them
\* is written behind the rest of that line.
Garbage == [fact |-> [body |-> <<>>, tombstone |-> FALSE, id |-> None], row |-> 0]
Written(recs) == IF torn /\ recs # <<>> THEN <<Garbage>> \o Tail(recs) ELSE recs

\* FileTransport.send_chunk: the records are appended, or, when the process
\* is killed, some of them and perhaps a part of the next one.
AppendLines(recs) ==
  \/ Sent /\ sink' = sink \o Written(recs) /\ torn' = (torn /\ recs = <<>>)
  \/ /\ Broken
     /\ \E k \in 0 .. Len(recs), part \in BOOLEAN :
          /\ part => k < Len(recs)
          /\ sink' = sink \o Written(SubSeq(recs, 1, k))
          /\ torn' = (part \/ (torn /\ k = 0))

\* All records of the chunk can be built; else send() raises before it writes.
ChunkBuildable == \A row \in ToSet(pending) : Buildable(Popped(row), Keys, Hard)
SendRaises ==
  /\ phase = "running" /\ Due /\ ~ChunkBuildable
  /\ Broken
  /\ UNCHANGED <<jb, runs, sink, torn, service>>

SendFile ==
  /\ jb.transport = "file" /\ phase = "running" /\ Due /\ ChunkBuildable
  /\ AppendLines(Placed([i \in DOMAIN pending |-> BuildRecord(pending[i], Keys, Hard)]))
  /\ UNCHANGED <<jb, runs, service>>

\* The facts of a chunk that the service does not know by a mark; those of
\* one chunk it does not compare with each other.
New_All(recs) == recs
New(recs) ==
  Picked(recs, {n \in DOMAIN recs : recs[n].fact.id = None \/ recs[n].fact.id \notin seen})

Commit(recs) == sink' = sink \o New(recs)
Mark(recs) == seen' = seen \cup ({r.fact.id : r \in ToSet(New(recs))} \ {None})

\* The service takes a chunk, unless it knows its seq: it commits what is new,
\* marks that, and records the chunk.
Ingest(recs) ==
  \/ seq \in ledger /\ UNCHANGED <<sink, service>>
  \/ /\ seq \notin ledger
     /\ Commit(recs) /\ Mark(recs)
     /\ ledger' = ledger \cup {seq} /\ UNCHANGED unmarked

\* The handler breaks off after the commit, or after the marks.
IngestFails(recs) ==
  /\ seq \notin ledger
  /\ Commit(recs) /\ UNCHANGED ledger
  /\ \/ UNCHANGED seen /\ unmarked' = unmarked \cup Len(sink) + 1 .. Len(sink')
     \/ Mark(recs) /\ UNCHANGED unmarked

\* HttpTransport.send_chunk: the answer comes; or it is lost, or the request,
\* or the handler breaks off, and send_chunk raises.
SendHttp ==
  /\ jb.transport = "http" /\ phase = "running" /\ Due /\ ChunkBuildable
  /\ LET wired == [i \in DOMAIN pending |-> BuildWireRecord(pending[i], Keys, Hard)]
         recs == Placed([i \in DOMAIN wired |-> Stamped(wired[i])])
     IN \/ Sent /\ Ingest(recs)
        \/ Broken /\ (Ingest(recs) \/ IngestFails(recs) \/ UNCHANGED <<sink, service>>)
  /\ UNCHANGED <<jb, runs, torn>>

Return ==
  /\ phase = "running" /\ read = Len(Rows) /\ ~Due
  /\ phase' = "done"
  /\ UNCHANGED <<jb, runs, read, pending, seq, sink, torn, service>>

Next == Run \/ TakeRow \/ SendRaises \/ SendFile \/ SendHttp \/ Return

Spec == Init /\ [][Next]_vars

-----------------------------------------------------------------------------
(* What a job promises, from the rows of its file                          *)

Raw == Flattened(jb.file)
ValueOf(i, name) == IF name \in DOMAIN Raw[i] THEN Stripped(Raw[i][name]) ELSE None
Deleted(i) == \E c \in ToSet(jb.columns) : c.hard /\ ValueOf(i, c.name) \notin {None, FALSE}

\* The fact that row i of the file stands for: the table's columns but for
\* dlt's own ids, or the key of what is deleted.
FactOf(i) ==
  LET names == {c.name : c \in ToSet(jb.columns)} \ {"_dlt_id", "_dlt_load_id"}
      kept == IF Deleted(i) /\ Keys # {} THEN Keys ELSE DOMAIN Raw[i] \cap names
  IN [body |-> [n \in kept |-> ValueOf(i, n)], tombstone |-> Deleted(i),
      id |-> ValueOf(i, "_dlt_id")]

\* Row j of the file comes after row i: by the hinted column if there is one,
\* in the order of that column's type, and last without a value in it.
Precedes(i, j) ==
  LET hint == DedupSort(jb.columns)[1]
      LessAt(k, l) == Less(Raw[k][hint.name].value, Raw[l][hint.name].value)
  IN /\ ValueOf(i, hint.name) # None
     /\ \/ ValueOf(j, hint.name) = None
        \/ IF hint.sort = "asc" THEN LessAt(i, j) ELSE LessAt(j, i)
ComesAfter(j, i) ==
  IF DedupSort(jb.columns) = <<>> THEN i < j
  ELSE Precedes(i, j) \/ (~Precedes(j, i) /\ i < j)

SameKey(i, j) == \A k \in Keys : ValueOf(i, k) = ValueOf(j, k)

\* The rows the file leaves in a keyed table: of each key the last one.
TableOfFile ==
  {FactOf(i).body : i \in {i \in DOMAIN Raw :
     ~Deleted(i) /\ \A j \in DOMAIN Raw : ~(SameKey(i, j) /\ ComesAfter(j, i))}}

\* fold(): a key is the texts of its fields with commas between them.
KeyOrder ==
  LET own == Picked(jb.columns, {i \in DOMAIN jb.columns : jb.columns[i].name \in Keys})
  IN [n \in DOMAIN own |-> own[n].name]
Joined(key) ==
  Flattened([n \in DOMAIN KeyOrder |->
               (IF n = 1 THEN <<>> ELSE <<",">>) \o Str(key[KeyOrder[n]])])
KeyOf(body) == [k \in Keys |-> Cell(body, k)]

\* The rows a reader of the sink is left with, after each of the facts and
\* after all of them.
FoldFact(state, f) ==
  {b \in state : Joined(KeyOf(b)) # Joined(KeyOf(f.body))}
  \cup (IF f.tombstone THEN {} ELSE {f.body})
Folded ==
  LET state[n \in 0 .. Len(sink)] == IF n = 0 THEN {} ELSE FoldFact(state[n - 1], sink[n].fact)
  IN state[Len(sink)]

\* Where the file's values are such that the text of its keys tells them
\* apart, and Python orders what is stripped as the column's type does.
KeysTellApart ==
  LET KeyAt(i) == [k \in Keys |-> ValueOf(i, k)]
  IN \A i, j \in DOMAIN Raw : ~SameKey(i, j) => Joined(KeyAt(i)) # Joined(KeyAt(j))
SortAgrees ==
  DedupSort(jb.columns) # <<>> =>
    LET name == DedupSort(jb.columns)[1].name IN
    \A i, j \in {i \in DOMAIN Raw : ValueOf(i, name) # None} :
      Below(ValueOf(i, name), ValueOf(j, name)) <=> Less(Raw[i][name].value, Raw[j][name].value)

\* Some run has cut larger chunks than a run before it.
Grown ==
  \E n \in DOMAIN runs : \E m \in 1 .. n :
    runs[m].records < runs[n].records \/ runs[m].bytes < runs[n].bytes

\* A line of the local file is no record.
HasGarbage == torn \/ \E n \in DOMAIN sink : sink[n].row = 0

\* Row p has never been committed and marked, though it has an id: another
\* row with that id may stand in its way.
IdAt(p) == Cell(Rows[p], "_dlt_id")
TakenForAnother(p) ==
  /\ IdAt(p) # None /\ \E r \in DOMAIN Rows \ {p} : IdAt(r) = IdAt(p)
  /\ \A n \in DOMAIN sink : sink[n].row = p => n \in unmarked

\* How often a fact is in the file and in the sink.
InFile(f) == Cardinality({i \in DOMAIN Raw : FactOf(i) = f})
InSink(f) == Cardinality({n \in DOMAIN sink : sink[n].fact = f})

\* A job that is done has put every row of its file into the log, although
\* runs before it broke off anywhere and cut the file elsewhere: a row with an
\* id itself, unless another row carries that id and is there, and rows
\* without one as often as the file has them. Except that a run with larger
\* chunks is taken for a repetition of the smaller ones.
AllRowsLanded ==
  jb.transport = "http" /\ phase = "done" /\ ~Grown =>
    \A i \in DOMAIN Raw :
      IF FactOf(i).id = None THEN InFile(FactOf(i)) <= InSink(FactOf(i))
      ELSE \/ InSink(FactOf(i)) > 0
           \/ \E j \in DOMAIN Raw \ {i} : FactOf(j).id = FactOf(i).id /\ InSink(FactOf(j)) > 0

\* In a local file killed runs cost at most one row, the first of the job: the
\* next run writes it behind the torn line.
OneRowPerTear ==
  jb.transport = "file" /\ phase = "done" =>
    \A i \in DOMAIN Raw :
      \/ InFile(FactOf(i)) <= InSink(FactOf(i))
      \/ /\ HasGarbage /\ FactOf(i) = BuildRecord(Rows[1], Keys, Hard)
         /\ InFile(FactOf(i)) <= InSink(FactOf(i)) + 1

\* Whatever is sent again, cut as before or not: a row with an id is in the
\* log again only where the handler that had committed it broke off before it
\* marked the id.
RowsLandOnce ==
  jb.transport = "http" =>
    \A m, n \in DOMAIN sink :
      m < n /\ sink[m].row = sink[n].row /\ sink[m].fact.id # None => m \in unmarked

\* For a keyed table, the sink of a job that is done folds to the table the
\* file describes: later rows win, deleted keys are gone, markers and unknown
\* columns too; also when rows are there twice, or the local file holds those
\* of several runs. Except where larger chunks or a row with another's id were
\* taken for known ones.
FoldedSinkIsTable ==
  /\ phase = "done" /\ Keys # {} /\ ~HasGarbage /\ KeysTellApart /\ SortAgrees
  /\ jb.transport = "http" => ~Grown /\ \A p \in DOMAIN Rows : ~TakenForAnother(p)
  => Folded = TableOfFile
=============================================================================
