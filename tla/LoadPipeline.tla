---------------------------- MODULE LoadPipeline ----------------------------
(***************************************************************************)
(* Machines that run a dlt load against the ingest service: the load jobs  *)
(* and the HTTP transport of this package, composed with IngestServer.     *)
(*                                                                         *)
(* dlt's loader is external.  As the package's capabilities ask it to, it  *)
(* runs the jobs of a load one at a time, in no particular order; it runs  *)
(* a job again from its start after a transient failure or a restart,      *)
(* gives the load up after a terminal one, and calls complete_load when    *)
(* all jobs are done.                                                      *)
(***************************************************************************)
EXTENDS IngestServer, SequencesExt

CONSTANTS
  Machines,   \* machines running the pipeline, each with a load of its own
  LoadOf,     \* the load id of a machine's package
  Package,    \* Package[m][j]: the chunks job j of m's load cuts its file into
  StateJob,   \* the job of the _dlt_pipeline_state table
  MaxRetries, \* max_409_retries
  MaxFaults   \* bound on handler failures, lost connections and restarts

ASSUME MachinesAssumption ==
  LoadOf \in [Machines -> Loads] /\ None \notin Threads
  /\ \A m \in Machines : StateJob \notin DOMAIN Package[m]
ASSUME PackageAssumption ==
  \A m \in Machines : \A j \in DOMAIN Package[m] :
    /\ Package[m][j] \in Seq(Chunks) \ {<<>>}
    /\ \A n \in DOMAIN Package[m][j] :
         LET c == Package[m][j][n] IN
         c \in Chunks /\ c.load = LoadOf[m] /\ c.job = j /\ c.seq = n - 1
ASSUME RetriesAssumption == MaxRetries \in Nat \ {0} /\ MaxFaults \in Nat

VARIABLES
  phase,    \* where a machine is in its load
  todo,     \* jobs of the load that are not done
  job, seq, \* the job it runs and the chunk it sends, from 0
  attempt,  \* the attempt of _request it is in, from 0
  at,       \* the server thread serving its request
  docOf,    \* version of the state document its load carries
  faults    \* faults so far

clientVars == <<phase, todo, job, seq, attempt, at, docOf>>
allVars == <<vars, clientVars, faults>>

PipelineInit ==
  /\ Init
  /\ phase = [m \in Machines |-> "start"]
  /\ todo = [m \in Machines |-> DOMAIN Package[m] \cup {StateJob}]
  /\ job = [m \in Machines |-> None]
  /\ seq = [m \in Machines |-> 0]
  /\ attempt = [m \in Machines |-> 0]
  /\ at = [m \in Machines |-> None]
  /\ docOf = [m \in Machines |-> 0]
  /\ faults = 0

EnterPhase(m, p) == phase' = [phase EXCEPT ![m] = p]

-----------------------------------------------------------------------------
(* The machine's side                                                      *)

\* get_stored_state before the extraction; the extraction makes the next
\* version of the state it found.
Start(m) ==
  /\ phase[m] = "start"
  /\ docOf' = [docOf EXCEPT ![m] = dltState + 1]
  /\ EnterPhase(m, "ready")
  /\ UNCHANGED <<vars, todo, job, seq, attempt, at, faults>>

\* dlt starts, or starts again, one of the jobs that are left.
RunJob(m) ==
  /\ phase[m] = "ready"
  /\ \E j \in todo[m] : job' = [job EXCEPT ![m] = j]
  /\ seq' = [seq EXCEPT ![m] = 0]
  /\ attempt' = [attempt EXCEPT ![m] = 0]
  /\ EnterPhase(m, "send")
  /\ UNCHANGED <<vars, todo, at, docOf, faults>>

\* One request of _request: a chunk, or the state document.
Send(m) ==
  /\ phase[m] = "send"
  /\ \E t \in Threads :
       /\ IF job[m] = StateJob
          THEN t \in StateThreads /\ ArriveState(t, docOf[m])
          ELSE t \in IngestThreads /\ ArriveIngest(t, Package[m][job[m]][seq[m] + 1])
       /\ at' = [at EXCEPT ![m] = t]
  /\ EnterPhase(m, "wait")
  /\ UNCHANGED <<todo, job, seq, attempt, docOf, faults>>

\* The answer to the request; the server's thread is done with it.
Receive(m) ==
  /\ phase[m] = "wait" /\ pc[at[m]] = "replied"
  /\ Finish(at[m])
  /\ at' = [at EXCEPT ![m] = None]
  /\ UNCHANGED <<docOf, faults>>

Accepted_NoDuplicate(m) ==
  \/ reply[at[m]] = "ok"
  \/ job[m] = StateJob /\ reply[at[m]] = "stale_state_version"

\* send_chunk and put_dlt_state return: a duplicate is as good as a landed
\* chunk, and a state write that lost to a newer one is ignored.
Accepted(m) ==
  \/ reply[at[m]] \in {"ok", "duplicate"}
  \/ job[m] = StateJob /\ reply[at[m]] = "stale_state_version"

\* The answers that come as a 409; all but the first are terminal.
Conflicts == {"lock_contention", "paused", "load_closed", "stale_state_version"}

MoreChunks_OffByOne(m) ==
  job[m] # StateJob /\ seq[m] + 2 < Len(Package[m][job[m]])

MoreChunks(m) == job[m] # StateJob /\ seq[m] + 1 < Len(Package[m][job[m]])

\* The chunk is in: the chunk loop of run() goes on to the next one.
NextChunk(m) ==
  /\ Receive(m) /\ Accepted(m) /\ MoreChunks(m)
  /\ seq' = [seq EXCEPT ![m] = @ + 1]
  /\ attempt' = [attempt EXCEPT ![m] = 0]
  /\ EnterPhase(m, "send")
  /\ UNCHANGED <<todo, job>>

\* The job's last chunk is in, or the state document is stored or stale.
JobDone(m) ==
  /\ Receive(m) /\ Accepted(m) /\ ~MoreChunks(m)
  /\ todo' = [todo EXCEPT ![m] = @ \ {job[m]}]
  /\ EnterPhase(m, "ready")
  /\ UNCHANGED <<job, seq, attempt>>

Exhausted_OffByOne(m) == attempt[m] >= MaxRetries
Exhausted(m) == attempt[m] + 1 >= MaxRetries

\* lock_contention: _request tries again, until its budget is spent.
Contended(m) ==
  /\ Receive(m) /\ reply[at[m]] = "lock_contention"
  /\ attempt' = [attempt EXCEPT ![m] = @ + 1]
  /\ EnterPhase(m, IF Exhausted(m) THEN "failed" ELSE "send")
  /\ UNCHANGED <<todo, job, seq>>

\* Any other conflict is terminal; the loader gives the load up.
Refused(m) ==
  /\ Receive(m) /\ ~Accepted(m)
  /\ reply[at[m]] \in Conflicts \ {"lock_contention"}
  /\ EnterPhase(m, "failed")
  /\ UNCHANGED <<todo, job, seq, attempt>>

\* A 500, or whatever else makes run() raise: the loader runs the job again,
\* from its first chunk.
Transient(m) ==
  /\ Receive(m) /\ ~Accepted(m) /\ reply[at[m]] \notin Conflicts
  /\ EnterPhase(m, "ready")
  /\ UNCHANGED <<todo, job, seq, attempt>>

\* The connection breaks or the process dies and is run again: the job starts
\* over, while the server's thread goes on with the request it has.
Interrupt(m) ==
  /\ phase[m] \in {"send", "wait"} /\ faults < MaxFaults
  /\ faults' = faults + 1
  /\ at' = [at EXCEPT ![m] = None]
  /\ EnterPhase(m, "ready")
  /\ UNCHANGED <<vars, todo, job, seq, attempt, docOf>>

\* complete_load; when its answer is lost the loader calls it again.
Close(m) ==
  /\ phase[m] = "ready" /\ todo[m] = {}
  /\ CompleteLoad(LoadOf[m])
  /\ \/ EnterPhase(m, "done") /\ UNCHANGED faults
     \/ faults < MaxFaults /\ faults' = faults + 1 /\ UNCHANGED phase
  /\ UNCHANGED <<todo, job, seq, attempt, at, docOf>>

-----------------------------------------------------------------------------
(* The server's side                                                       *)

\* A step of a handler; one that makes it fail uses up a fault.
HandlerStep(t) ==
  /\ \/ t \in IngestThreads /\ IngestStep(t)
     \/ t \in StateThreads /\ StateStep(t)
     \/ ClaimRefused(t) \/ Claim(t) \/ Release(t)
  /\ IF reply'[t] = "error" /\ reply[t] # "error"
     THEN faults < MaxFaults /\ faults' = faults + 1
     ELSE UNCHANGED faults
  /\ UNCHANGED clientVars

\* The answer to a request nobody waits for any more.
DropReply(t) ==
  /\ \A m \in Machines : at[m] # t
  /\ Finish(t)
  /\ UNCHANGED <<clientVars, faults>>

-----------------------------------------------------------------------------
MachineStep(m) ==
  \/ Start(m) \/ RunJob(m) \/ Send(m) \/ NextChunk(m) \/ JobDone(m)
  \/ Contended(m) \/ Refused(m) \/ Transient(m) \/ Close(m)

PipelineNext ==
  \/ \E m \in Machines : MachineStep(m) \/ Interrupt(m)
  \/ \E t \in Threads : HandlerStep(t) \/ DropReply(t)
  \/ Pause /\ UNCHANGED <<clientVars, faults>>

PipelineSpec == PipelineInit /\ [][PipelineNext]_allVars

\* The loader and the server's threads keep running; Pause never has to come.
FairPipelineSpec ==
  /\ PipelineSpec
  /\ \A m \in Machines : WF_allVars(MachineStep(m))
  /\ \A t \in Threads : WF_allVars(HandlerStep(t) \/ DropReply(t))

-----------------------------------------------------------------------------
(* Properties                                                              *)

ClientTypeOK ==
  /\ phase \in [Machines -> {"start", "ready", "send", "wait", "done", "failed"}]
  /\ \A m \in Machines :
       /\ todo[m] \subseteq DOMAIN Package[m] \cup {StateJob}
       /\ phase[m] \in {"send", "wait"} => job[m] \in todo[m]
       /\ phase[m] = "send" => attempt[m] < MaxRetries
       /\ phase[m] = "wait" <=> at[m] # None
  /\ faults \in 0 .. MaxFaults

ChunksOf(m) == UNION {ToSet(Package[m][j]) : j \in DOMAIN Package[m]}

\* A load that is reported complete is in the log, row for row, after any
\* mix of retries, restarts, lost answers and failed handlers.
CompletedLoadIsWhole ==
  \A m \in Machines : phase[m] = "done" => \A c \in ChunksOf(m) : Landed(c)

\* A completed load does not change any more, although handlers of requests
\* that were given up may still be running: they find their rows marked.
CompletedLoadIsFinal ==
  [][\A m \in Machines :
       phase[m] = "done" => SegmentsOf(LoadOf[m])' = SegmentsOf(LoadOf[m])]_allVars

\* The chunks of a job land in the order of its file, also when the job is
\* run again: a later chunk is only sent when the earlier one is marked.
JobLandsInOrder ==
  \A tb \in Tables : \A i, j \in 1 .. Len(log[tb]) :
    LET a == log[tb][i].chunk
        b == log[tb][j].chunk
    IN i < j /\ a.load = b.load /\ a.job = b.job => a.seq <= b.seq

\* A machine whose load is complete finds its state document, or one at least
\* as new, stored: no zombie of an older write takes it back.
CompletedStateKept ==
  \A m \in Machines : phase[m] = "done" => dltState >= docOf[m]

\* Every load ends, completed or refused for good, whatever is retried: a
\* client that comes back to chunks it has already sent gets through them.
EveryLoadEnds == \A m \in Machines : <>(phase[m] \in {"done", "failed"})
=============================================================================
