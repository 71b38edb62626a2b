---------------------------- MODULE MCFactReader ----------------------------
(* A small instance of FactReader for TLC. *)
EXTENDS FactReader, TLC

CONSTANTS orders, items, load, jobA, jobB, id1, id2, id3, k1, k2

\* Rows of two keys; id3 is the tombstone of k1.
MCRows == {id1, id2, id3}
MCDltId == [r \in MCRows |-> r]
MCKeyOf == id1 :> k1 @@ id2 :> k2 @@ id3 :> k1
MCTombstones == {id3}

Chunk(t, j, n, rows) ==
  [table |-> t, load |-> load, job |-> j, seq |-> n, rows |-> rows]

MCChunks ==
  {Chunk(orders, jobA, 0, <<id1, id2>>), Chunk(orders, jobA, 1, <<id3>>),
   Chunk(items, jobB, 0, <<id3, id2>>)}

LastPoint == {"after_ledger"}
Symmetry == Permutations(IngestThreads)
=============================================================================
