--------------------------- MODULE MCIngestServer ---------------------------
(* Small instances of IngestServer for TLC. *)
EXTENDS IngestServer, TLC

CONSTANTS orders, items, load, jobA, jobB, jobC, id1, id2, id3

\* Row values: an id and what tells rows of one id apart.
Row(i, v) == [i |-> i, v |-> v]
MCRows == [i : {id1, id2, id3, None}, v : 1 .. 2]
MCDltId == [r \in MCRows |-> r.i]

Chunk(t, j, n, rows) == [table |-> t, load |-> load, job |-> j, seq |-> n, rows |-> rows]

\* Chunks as one load of the pipeline produces them: two jobs of a table, one
\* with a row that has no id, and a job of another table.
PlainChunks ==
  {Chunk(orders, jobA, 0, <<Row(id1, 1), Row(id2, 1)>>),
   Chunk(orders, jobC, 0, <<Row(None, 1)>>),
   Chunk(items, jobB, 0, <<Row(id3, 1)>>)}

\* A table whose key recurs in the load: its rows share the key's hash as id.
KeyedChunks ==
  {Chunk(orders, jobA, 0, <<Row(id1, 1)>>), Chunk(orders, jobA, 1, <<Row(id1, 2)>>)}

AllPoints == Points
LatePoints == {"after_mark_before_ledger", "after_ledger"}
LastPoint == {"after_ledger"}
=============================================================================
