----------------------------- MODULE MCIdentity -----------------------------
(* Two machines, and what each of them may be. *)
EXTENDS Identity, TLC

CONSTANTS m1, m2

Machine(transport, active, name, dataset) ==
  [hosted |-> FALSE, transport |-> transport, url |-> "url", dir |-> "dir",
   active |-> active, name |-> name, dataset |-> dataset, schema |-> "schema:orders"]

Orders == Machine(None, TRUE, "orders", "live")

\* m1 runs a pipeline; m2 runs it too, or another one in the same or another
\* dataset, or writes local files, or has a client without a pipeline, or is
\* configured so that it cannot start.
Others ==
  {Orders, Machine("http", TRUE, "orders", "test"), Machine("http", TRUE, "items", "live"),
   Machine("file", TRUE, "orders", "live"), Machine("http", FALSE, "orders", "live"),
   [Orders EXCEPT !.hosted = TRUE], [Orders EXCEPT !.url = None]}

MCSetups == {[m \in Machines |-> IF m = m1 THEN Orders ELSE o] : o \in Others}
MCNames == {"orders", "items", "live", "test", "schema:orders"}
Symmetry == Permutations(Pids)
=============================================================================
