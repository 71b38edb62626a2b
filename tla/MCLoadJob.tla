------------------------------ MODULE MCLoadJob ------------------------------
(* Small jobs for LoadJob: every hint, both transports, rows with and      *)
(* without ids, unsorted, deleted, incomplete and marked ones.             *)
EXTENDS LoadJob, TLC

\* Values: numbers (decimals, when they are marked), the text of numbers, and
\* words by their characters.
Number(n) == [type |-> "number", is |-> n]
Word(chars) == [type |-> "word", is |-> chars]
MCText(v) == [type |-> "text", is |-> v.is]
MCStr(v) ==
  IF v = None THEN <<"None">>
  ELSE IF v.type = "word" THEN v.is ELSE <<ToString(v.is)>>

\* As text 9 comes after 10; the numbers are below 100.
TextRank(n) == IF n < 10 THEN 11 * n ELSE 11 * (n \div 10) + (n % 10) + 1
MCBelow(a, b) == IF a.type = "text" THEN TextRank(a.is) < TextRank(b.is) ELSE a.is < b.is
MCLess(a, b) == a.is < b.is

Plain(v) == [mark |-> "", value |-> v]
Typed(v) == [mark |-> "decimal", value |-> v]

Column(n) == [name |-> n, primary |-> FALSE, merge |-> FALSE, hard |-> FALSE, sort |-> None]
Key(n) == [Column(n) EXCEPT !.primary = TRUE]
MergeKey(n) == [Column(n) EXCEPT !.merge = TRUE]
Sorted(n, direction) == [Column(n) EXCEPT !.sort = direction]
Deletes == [Column("gone") EXCEPT !.hard = TRUE]

\* Rows of two keys.
Row(k, at, id) ==
  [key |-> Typed(Number(k)), at |-> Plain(Number(at)),
   _dlt_id |-> Plain(id), _dlt_load_id |-> Plain(Number(1))]
With(row, name, cell) == [c \in DOMAIN row \cup {name} |-> IF c = name THEN cell ELSE row[c]]
NoTime(row) == With(row, "at", Plain(None))
Gone(row, yes) == With(row, "gone", Plain(yes))
Extra(row) == With(row, "unknown", Plain(Number(7)))
NoKey(row) == [c \in DOMAIN row \ {"key"} |-> row[c]]
NoId(row) == [c \in DOMAIN row \ {"_dlt_id"} |-> row[c]]

\* Rows with ids of their own, or, as a merge table's are, by their keys; with
\* the same time twice; without ids; without keys, which are one key.
FileOf(r1, r2, r3, r4) == <<<<r1, r2>>, <<>>, <<r3>>, <<r4>>>>
Mixed(a, b, c, d) ==
  FileOf(Row(1, 2, a), Gone(NoTime(Row(2, 2, b)), FALSE),
         Extra(Row(1, 1, c)), Gone(Row(2, 1, d), TRUE))
Ties(a, b, c, d) == FileOf(Row(1, 1, a), Row(1, 1, b), Row(2, 2, c), Row(2, 1, d))
NoIds == FileOf(NoId(Row(1, 2, "")), NoId(Row(2, 1, "")), NoId(Row(1, 2, "")),
               NoId(Gone(Row(1, 1, ""), TRUE)))
NoKeys == FileOf(Row(1, 1, "r1"), NoKey(Row(1, 1, "r2")), NoKey(Row(1, 2, "r3")), Row(2, 1, "r4"))

\* A tombstone without a key cannot be sent.
Unsendable ==
  FileOf(Row(1, 1, "r1"), Row(2, 1, "r2"), NoKey(Gone(Row(1, 1, "r3"), TRUE)), Row(2, 2, "r4"))

\* Decimals to sort by; two keys that are one when they are joined.
Decimals ==
  LET At(row, n) == With(row, "at", Typed(Number(n)))
  IN FileOf(At(Row(1, 1, "r1"), 9), At(Row(1, 1, "r2"), 10), At(Row(2, 1, "r3"), 20),
            At(Row(2, 1, "r4"), 11))
Commas ==
  LET Two(row, a, b) == With(With(row, "key", Plain(Word(a))), "at", Plain(Word(b)))
  IN FileOf(Two(Row(1, 1, "r1"), <<"a", ",", "b">>, <<"c">>), Two(Row(1, 1, "r2"), <<"a">>, <<"c">>),
            Two(Row(1, 1, "r3"), <<"a">>, <<"b", ",", "c">>), Two(Row(1, 1, "r4"), <<"a">>, <<"c">>))

Job(transport, columns, disposition, strategy, file) ==
  [transport |-> transport, columns |-> columns, disposition |-> disposition,
   strategy |-> strategy, file |-> file]

Transports == {"file", "http"}
Keyed == <<Key("key"), Column("at"), Deletes>>
ByTime == <<MergeKey("key"), Sorted("at", "asc"), Deletes>>
LastFirst == <<Key("key"), MergeKey("at"), Sorted("at", "desc"), Deletes, Column("_dlt_id")>>
Unkeyed == <<Column("key"), Column("at"), Column("_dlt_id")>>

MCCases ==
  {Job(transport, columns, "append", None, Mixed("r1", "r2", "r3", "r4")) :
     transport \in Transports, columns \in {Keyed, ByTime, LastFirst, Unkeyed}}
  \cup {Job(transport, columns, "merge", "upsert", Ties("k1", "k1", "k2", "k2")) :
          transport \in Transports, columns \in {Keyed, ByTime, LastFirst}}
  \cup {Job("http", columns, "merge", "upsert", Mixed("k1", "k2", "k1", "k2")) :
          columns \in {Keyed, ByTime}}
  \cup {Job(transport, Keyed, "append", None, file) :
          transport \in Transports, file \in {NoKeys, Unsendable, NoIds}}
  \cup {Job(transport, ByTime, "merge", "upsert", Decimals) : transport \in Transports}
  \cup {Job("http", <<Key("key"), Key("at")>>, "append", None, Commas),
        Job("file", <<Key("key")>>, "append", None, <<<<>>>>),
        Job("http", <<Key("key")>>, "replace", None, <<>>),
        Job("http", Keyed, "merge", "scd2", Mixed("r1", "r2", "r3", "r4"))}

MCLimits == {[records |-> 2, bytes |-> 20], [records |-> 3, bytes |-> 9],
             [records |-> 1, bytes |-> 9]}
=============================================================================
