--------------------------- MODULE ResidualWindow ---------------------------
(***************************************************************************)
(* The bounded list of jobs the ingest service remembers per table, and    *)
(* the flag it raises when a job comes back after another job has touched  *)
(* the table: FakeMatterbeamState._track_job_arrival.  The list holds at   *)
(* most Window entries (_JOB_ORDER_WINDOW is 16 in the code).              *)
(***************************************************************************)
EXTENDS Naturals, Sequences

CONSTANT Window

ASSUME WindowAssumption == Window \in Nat \ {0}

KeepLast_Oldest(order) == SubSeq(order, 1, IF Len(order) > Window THEN Window ELSE Len(order))

\* `del order[:-Window]`: the last Window entries, all of them when fewer.
KeepLast(order) ==
  SubSeq(order, IF Len(order) > Window THEN Len(order) - Window + 1 ELSE 1, Len(order))

\* Consecutive chunks of one job are not an arrival of that job again.
IsContinuation(order, job) == order # <<>> /\ order[Len(order)] = job

\* The value the method returns: the job is back after a different one.
IsResurrection(order, job) ==
  ~IsContinuation(order, job) /\ \E i \in DOMAIN order : order[i] = job

\* The list after the call.
TrackJobArrival(order, job) ==
  IF IsContinuation(order, job) THEN order ELSE KeepLast(Append(order, job))
=============================================================================
