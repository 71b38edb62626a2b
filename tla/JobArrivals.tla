----------------------------- MODULE JobArrivals -----------------------------
(***************************************************************************)
(* The arrivals of jobs at one table of the ingest service, and which of   *)
(* them it takes for a stale job that came back (the counter               *)
(* residual_stale_resurrection).  One step is one call of                  *)
(* FakeMatterbeamState._track_job_arrival, under the entry lock.           *)
(***************************************************************************)
EXTENDS ResidualWindow, FiniteSets

CONSTANTS
  Jobs,
  MaxArrivals  \* bound on the number of calls

ASSUME ArrivalsAssumption == MaxArrivals \in Nat

VARIABLES
  order,    \* rt_state["job_order"]
  arrived,  \* history: the jobs of all calls
  flagged   \* the calls that returned True, by position

vars == <<order, arrived, flagged>>

Init == order = <<>> /\ arrived = <<>> /\ flagged = {}

Arrive(job) ==
  /\ Len(arrived) < MaxArrivals
  /\ order' = TrackJobArrival(order, job)
  /\ arrived' = Append(arrived, job)
  /\ flagged' = IF IsResurrection(order, job) THEN flagged \cup {Len(arrived) + 1} ELSE flagged

Next == \E job \in Jobs : Arrive(job)

Spec == Init /\ [][Next]_vars

-----------------------------------------------------------------------------
\* Call n is by another job than the call before it.
Switches(n) == n = 1 \/ arrived[n] # arrived[n - 1]

\* The calls between m and n.
Between(m, n) == m + 1 .. n - 1

\* Call n is by a job that was last here, in call m, before another one.
Returns(m, n) == m < n /\ Switches(n) /\ arrived[m] = arrived[n]

\* A job's return is recognised exactly when fewer than Window changes of job
\* lie between its last call and this one; the calls in a row of one job, the
\* chunks of that job, do not push others out of the list, however many.
ReturnsRecognised ==
  flagged = {n \in DOMAIN arrived :
               \E m \in DOMAIN arrived :
                 Returns(m, n) /\ Cardinality({k \in Between(m, n) : Switches(k)}) < Window}
=============================================================================
