------------------------------- MODULE FactLog -------------------------------
(***************************************************************************)
(* What the ingest service promises of a pid's log, with no threads, lock, *)
(* ledger or marks: per table a sequence of batches of facts that only     *)
(* grows, in which no batch sorts at or below an earlier one and no id of  *)
(* a load lands twice.                                                     *)
(***************************************************************************)
EXTENDS Naturals, Sequences

CONSTANT Tables

\* facts[tb][i] is a record [load, ids, ms]: the load a batch belongs to, the
\* ids of its facts and the time its facts' record ids begin with.
VARIABLE facts

Init == facts = [tb \in Tables |-> <<>>]

\* b may follow all that is in tb's log, and brings only ids new to its load.
IsNext(tb, b) ==
  /\ \A i \in DOMAIN facts[tb] : facts[tb][i].ms < b.ms
  /\ \A tc \in Tables : \A i \in DOMAIN facts[tc] :
       facts[tc][i].load = b.load => facts[tc][i].ids \cap b.ids = {}

\* One table's log grows by one batch; the other logs stay as they are.
Grow(tb) ==
  \E b \in {facts'[tb][i] : i \in DOMAIN facts'[tb]} :
    /\ IsNext(tb, b)
    /\ facts' = [facts EXCEPT ![tb] = Append(@, b)]

Next == \E tb \in Tables : Grow(tb)

Spec == Init /\ [][Next]_facts
=============================================================================
