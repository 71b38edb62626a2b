--------------------------- MODULE MCLoadPipeline ---------------------------
(* Small instances of LoadPipeline for TLC. *)
EXTENDS LoadPipeline, TLC

CONSTANTS orders, items, m1, m2, load1, load2, jobA, jobB, jobS, id1, id2, id3

MCRows == {id1, id2, id3}
MCDltId == [r \in MCRows |-> r]

Chunk(t, l, j, n, rows) == [table |-> t, load |-> l, job |-> j, seq |-> n, rows |-> rows]

\* One load: a job of two chunks and, for another table, a job of one.
OneMachine == {m1}
OneLoad == m1 :> load1
OneA == <<Chunk(orders, load1, jobA, 0, <<id1>>), Chunk(orders, load1, jobA, 1, <<id2>>)>>
OneB == <<Chunk(items, load1, jobB, 0, <<id3>>)>>
OnePackage == m1 :> (jobA :> OneA @@ jobB :> OneB)

\* Two machines: a load of one chunk, and one that only has its state to store.
TwoMachines == {m1, m2}
TwoLoads == m1 :> load1 @@ m2 :> load2
TwoPackage ==
  m1 :> (jobA :> <<Chunk(orders, load1, jobA, 0, <<id1>>)>>)
  @@ m2 :> <<>>

MCChunks == UNION {ChunksOf(m) : m \in Machines}
MCLoads == {LoadOf[m] : m \in Machines}
\* The threads of a kind do the same things.
Symmetry == Permutations(IngestThreads) \cup Permutations(StateThreads)

AllPoints == Points
LastPoint == {"after_ledger"}
=============================================================================
