------------------------------- MODULE Ordering -------------------------------
(***************************************************************************)
(* Sorting, filtering and folding as the code gets them from Python        *)
(* (external: sorted(), comprehensions, for loops), written by what they   *)
(* return, so that theorems can be stated about them.                      *)
(***************************************************************************)
EXTENDS Integers, FiniteSets, Sequences

\* The elements of a finite S in the order Less, a set of pairs: the n-th one
\* is the one with n - 1 elements below it.
Arranged(S, Less) ==
  [n \in 1 .. Cardinality(S) |->
     CHOOSE x \in S : Cardinality({y \in S : <<y, x>> \in Less}) = n - 1]

\* The elements of s at the positions in I, in the order they have in s.
Picked(s, I) ==
  LET order == Arranged(I, {p \in I \X I : p[1] < p[2]})
  IN [n \in DOMAIN order |-> s[order[n]]]

\* Positions ordered by what is there, equal ones as they are.
Stably(s, Less) ==
  {p \in (DOMAIN s) \X (DOMAIN s) :
     \/ <<s[p[1]], s[p[2]]>> \in Less
     \/ <<s[p[2]], s[p[1]]>> \notin Less /\ p[1] < p[2]}

\* s sorted by Less, stably.
SortedBy(s, Less) ==
  LET order == Arranged(DOMAIN s, Stably(s, Less))
  IN [n \in DOMAIN s |-> s[order[n]]]

\* The sequences in seqs, one after the other.
Flattened(seqs) ==
  LET all[n \in 0 .. Len(seqs)] == IF n = 0 THEN <<>> ELSE all[n - 1] \o seqs[n]
  IN all[Len(seqs)]

\* The sums of the first numbers of s, and of all.
Sums(s) ==
  LET sum[n \in 0 .. Len(s)] == IF n = 0 THEN 0 ELSE sum[n - 1] + s[n]
  IN sum
Total(s) == Sums(s)[Len(s)]
=============================================================================
