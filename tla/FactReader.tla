----------------------------- MODULE FactReader -----------------------------
(***************************************************************************)
(* The reader of the committed segments, composed with the ingest service: *)
(* fold.scan lists a table's segments by name under a cursor that only     *)
(* moves forward, so a segment that sorts below the cursor is never read;  *)
(* fold.fold replays what was read into the current state of a keyed       *)
(* table, the last value winning and a tombstone removing its key.         *)
(***************************************************************************)
EXTENDS IngestServer, Ordering, SequencesExt

CONSTANTS
  KeyOf,       \* the values of a row's key fields, a function on Rows
  Tombstones   \* rows that are tombstones

ASSUME ReaderAssumption == Tombstones \subseteq Rows /\ DOMAIN KeyOf = Rows

VARIABLES
  cursor,  \* per table, the record id up to which the reader has read
  replay   \* per table, the segments it has read, in that order

readerVars == <<cursor, replay>>

ReaderInit ==
  /\ Init
  /\ cursor = [tb \in Tables |-> <<0, 0, 0>>]
  /\ replay = [tb \in Tables |-> <<>>]

Beyond_Inclusive(tb, s) == ~IdLess(LastId(s), cursor[tb])

\* s sorts after the cursor; the listing starts there.
Beyond(tb, s) == IdLess(cursor[tb], LastId(s))

\* The listing of a table: by name, which is by record id.
Found(tb) == {s \in ToSet(log[tb]) : Beyond(tb, s)}
ByName(tb) == {p \in Found(tb) \X Found(tb) : IdLess(LastId(p[1]), LastId(p[2]))}
Listing(tb) == Arranged(Found(tb), ByName(tb))

\* One call of scan, which goes on where the last one has ended.
Scan(tb) ==
  /\ Listing(tb) # <<>>
  /\ replay' = [replay EXCEPT ![tb] = @ \o Listing(tb)]
  /\ cursor' = [cursor EXCEPT ![tb] = LastId(Listing(tb)[Len(Listing(tb))])]
  /\ UNCHANGED vars

ReaderNext ==
  \/ Next /\ UNCHANGED readerVars
  \/ \E tb \in Tables : Scan(tb)

ReaderSpec == ReaderInit /\ [][ReaderNext]_<<vars, readerVars>>

-----------------------------------------------------------------------------
(* Replay                                                                  *)

\* The rows of a segment, and of the segments read, in record id order.
RowsOf(s) == Picked(s.chunk.rows, s.kept)
Facts(segments) == Flattened([i \in DOMAIN segments |-> RowsOf(segments[i])])

Replayed_AddsOnly(state, row) ==
  {other \in state : KeyOf[other] # KeyOf[row]} \cup {row}

\* One fact replayed: it replaces the row of its key, or removes it.
Replayed(state, row) ==
  {other \in state : KeyOf[other] # KeyOf[row]}
  \cup (IF row \in Tombstones THEN {} ELSE {row})

\* fold(): the current state of a keyed table after each of the facts, and
\* after all of them.
States(facts) ==
  LET state[n \in 0 .. Len(facts)] ==
        IF n = 0 THEN {} ELSE Replayed(state[n - 1], facts[n])
  IN state
Folded(facts) == States(facts)[Len(facts)]

-----------------------------------------------------------------------------
(* Properties                                                              *)

\* What the reader has read is a prefix of what was committed: it has missed
\* no segment, read none twice and swapped none, although segments are
\* committed by many threads while it reads.
ReplayIsPrefix == \A tb \in Tables : IsPrefix(replay[tb], log[tb])

\* A reader that has caught up holds, for every key, the row committed last,
\* unless that row is a tombstone: the order of the commits decides.
FoldIsLatest ==
  \A tb \in Tables :
    LET facts == Facts(log[tb])
        Latest(i) == \A j \in DOMAIN facts : j > i => KeyOf[facts[j]] # KeyOf[facts[i]]
    IN replay[tb] = log[tb] =>
         Folded(Facts(replay[tb])) =
           {facts[i] : i \in {n \in DOMAIN facts : Latest(n)}} \ Tombstones
=============================================================================
