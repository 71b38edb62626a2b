------------------------------ MODULE Identity ------------------------------
(***************************************************************************)
(* Who a machine is to the service, and from where it resumes: the choice  *)
(* of the transport, the pid each job client resolves, the state document  *)
(* and its incremental cursor, the completion of a load.                   *)
(*                                                                         *)
(* dlt (external) opens a client of its own for the state sync, for every  *)
(* job and for complete_load, and does not tell them the pipeline's name.  *)
(* It extracts the source's rows beyond its cursor, runs the jobs of the   *)
(* package in any order and again when an answer is lost, and may give a   *)
(* load up, or be lost with its machine; a new machine starts without a    *)
(* state.  A machine without an active pipeline uses a client standalone.  *)
(***************************************************************************)
EXTENDS Naturals, FiniteSets

CONSTANTS
  Machines, Pids, None,
  Names,     \* of pipelines, datasets and, after "schema:", schemas
  Setups,    \* what the machines may be: functions from Machines to records
             \* [hosted, transport, url, dir, active, name, dataset, schema]
  Plugins,   \* names of the transports installed as entry points
  MaxRow,    \* bound on the rows the source has, 1 .. MaxRow, oldest first
  MaxLoads   \* bound on the loads of a machine

ASSUME BoundsAssumption == MaxRow \in Nat \ {0} /\ MaxLoads \in Nat
ASSUME NoneAssumption ==
  None \notin Pids /\ \A t \in {"sync", "rows", "state", "complete"} : None # t
ASSUME NamesAssumption ==
  \A x \in Setups : \A m \in Machines : {x[m].name, x[m].schema, x[m].dataset} \subseteq Names

VARIABLES
  setup,     \* the machines; never changes
  source,    \* how many rows the source has
  local,     \* dlt's state on a machine: [version, cursor]
  load,      \* the number of a machine's load
  package,   \* the rows of its load
  todo,      \* what is left to do: jobs, then complete_load
  task,      \* what the open client was opened for, or None
  client,    \* the pid the open client has resolved
  registry,  \* pid of each registered key <<name, dataset>>
  docs,      \* the state document of each pid: [version, cursor], or None
  facts,     \* rows in the log: <<pid, machine, load, row>>
  closed,    \* closed loads: <<pid, machine, load>>
  given      \* history: loads given up or lost, <<machine, load, row>>

machineVars == <<local, load, package, todo>>
serverVars == <<registry, docs, facts, closed>>
vars == <<setup, source, machineVars, task, client, serverVars, given>>

-----------------------------------------------------------------------------
(* Configuration and transport                                             *)

\* on_resolved: the hosted runtime has its own transport, come what may.
OnResolved(c) ==
  IF c.hosted THEN "internal_log" ELSE IF c.transport = None THEN "http" ELSE c.transport

\* resolve_transport: None stands for ConfigurationValueError.
ResolveTransport(c) ==
  LET name == OnResolved(c) IN
  CASE name = "file" -> IF c.dir = None THEN None ELSE name
    [] name = "http" -> IF c.url = None THEN None ELSE name
    [] OTHER -> IF name \in Plugins THEN name ELSE None

Via(m) == ResolveTransport(setup[m])

-----------------------------------------------------------------------------
Init ==
  /\ setup \in Setups
  /\ source = 1
  /\ local = [m \in Machines |-> [version |-> 0, cursor |-> 0]]
  /\ load = [m \in Machines |-> 0]
  /\ package = [m \in Machines |-> {}]
  /\ todo = [m \in Machines |-> {}]
  /\ task = [m \in Machines |-> None]
  /\ client = [m \in Machines |-> None]
  /\ registry = [k \in Names \X Names |-> None]
  /\ docs = [p \in Pids |-> None]
  /\ facts = {} /\ closed = {} /\ given = {}

Produce ==
  /\ source < MaxRow /\ source' = source + 1
  /\ UNCHANGED <<setup, machineVars, task, client, serverVars, given>>

-----------------------------------------------------------------------------
(* The clients                                                             *)

\* The name get_stored_state is given, or the one the fallback finds.
NameFor_Dataset(m, t) == IF t = "sync" THEN setup[m].name ELSE setup[m].dataset
NameFor(m, t) ==
  IF t = "sync" \/ setup[m].active THEN setup[m].name ELSE setup[m].schema

AnyDataset(m) == CHOOSE d \in Names : TRUE

\* The dataset is a part of what a pipeline is registered under.
DatasetFor(m) == setup[m].dataset

Resolving_NotComplete == {"sync", "rows", "state"}

\* The uses of a client that resolve its pid first.
Resolving == {"sync", "rows", "state", "complete"}

Unclaimed == Pids \ {registry[k] : k \in DOMAIN registry}

\* _ensure_pid of a fresh client: the pid is looked up or created at the
\* service by name and dataset; FileTransport has no service and no pid.
EnsurePid(m, t) ==
  LET key == <<NameFor(m, t), DatasetFor(m)>> IN
  IF Via(m) = "file" \/ t \notin Resolving
  THEN client' = [client EXCEPT ![m] = None] /\ UNCHANGED registry
  ELSE \E p \in IF registry[key] # None THEN {registry[key]} ELSE Unclaimed :
         /\ registry' = [registry EXCEPT ![key] = p]
         /\ client' = [client EXCEPT ![m] = p]

\* What a client is opened for next: the jobs in any order, complete_load when
\* none is left, and the sync of the next run.
NextTasks(m) ==
  IF todo[m] = {} THEN {t \in {"sync"} : setup[m].active /\ load[m] < MaxLoads}
  ELSE IF todo[m] = {"complete"} THEN todo[m] ELSE todo[m] \ {"complete"}

\* A client is made, or raises for want of a transport, and resolves its pid.
Open(m) ==
  /\ task[m] = None /\ Via(m) # None
  /\ \E t \in NextTasks(m) : task' = [task EXCEPT ![m] = t] /\ EnsurePid(m, t)
  /\ UNCHANGED <<setup, source, machineVars, docs, facts, closed, given>>

CloseClient(m) == task' = [task EXCEPT ![m] = None] /\ client' = [client EXCEPT ![m] = None]

\* The answer to a client's request comes and t is done, or it is lost.
Answered(m, t) ==
  /\ CloseClient(m)
  /\ todo' = [todo EXCEPT ![m] = @ \ {t}] \/ UNCHANGED todo

\* The document get_stored_state returns: none without a pid, or on a 404.
StoredState(m) ==
  IF client[m] = None \/ docs[client[m]] = None
  THEN [version |-> 0, cursor |-> 0] ELSE docs[client[m]]

\* A package of rows, whose jobs are now to be done.
Package(m, rows, jobs) ==
  /\ rows # {}
  /\ load' = [load EXCEPT ![m] = @ + 1]
  /\ package' = [package EXCEPT ![m] = rows]
  /\ todo' = [todo EXCEPT ![m] = jobs \cup {"complete"}]

\* get_stored_state, and the extraction from the newer of the two states.
SyncAndExtract(m) ==
  /\ task[m] = "sync"
  /\ LET stored == StoredState(m)
         base == IF stored.version > local[m].version THEN stored ELSE local[m]
     IN /\ Package(m, {r \in 1 .. source : r > base.cursor}, {"rows", "state"})
        /\ local' = [local EXCEPT ![m] = [version |-> base.version + 1, cursor |-> source]]
  /\ CloseClient(m)
  /\ UNCHANGED <<setup, source, serverVars, given>>

\* A standalone client is handed all rows there are, and no state.
HandRows(m) ==
  /\ ~setup[m].active /\ todo[m] = {} /\ load[m] < MaxLoads
  /\ Package(m, 1 .. source, {"rows"})
  /\ UNCHANGED <<setup, source, local, task, client, serverVars, given>>

\* Nothing new, or the answer is lost: dlt will run again.
SyncInVain(m) ==
  /\ task[m] = "sync"
  /\ CloseClient(m)
  /\ UNCHANGED <<setup, source, machineVars, serverVars, given>>

SendRows(m) ==
  /\ task[m] = "rows"
  /\ facts' = facts \cup {<<client[m], m, load[m], r>> : r \in package[m]}
  /\ Answered(m, "rows")
  /\ UNCHANGED <<setup, source, local, load, package, registry, docs, closed, given>>

\* The service's guard of the state document.
IsStale(doc, old) == old # None /\ doc.version <= old.version

\* put_dlt_state: nothing without a pid; a stale write is ignored.
PutState(m) ==
  /\ task[m] = "state"
  /\ LET p == client[m] IN
     IF p = None \/ IsStale(local[m], docs[p]) THEN UNCHANGED docs
     ELSE docs' = [docs EXCEPT ![p] = local[m]]
  /\ Answered(m, "state")
  /\ UNCHANGED <<setup, source, local, load, package, registry, facts, closed, given>>

\* complete_load; FileTransport does nothing.
CompleteLoad(m) ==
  /\ task[m] = "complete"
  /\ closed' = closed \cup (IF Via(m) = "file" THEN {} ELSE {<<client[m], m, load[m]>>})
  /\ Answered(m, "complete")
  /\ UNCHANGED <<setup, source, local, load, package, registry, docs, facts, given>>

\* The loader gives the load up after a terminal error, or the machine is lost
\* with everything on it.
GiveUp(m) ==
  /\ todo[m] # {}
  /\ todo' = [todo EXCEPT ![m] = {}]
  /\ given' = given \cup {<<m, load[m], r>> : r \in package[m]}
  /\ local' = local \/ local' = [local EXCEPT ![m] = [version |-> 0, cursor |-> 0]]
  /\ CloseClient(m)
  /\ UNCHANGED <<setup, source, load, package, serverVars>>

Next ==
  \/ Produce
  \/ \E m \in Machines :
       \/ Open(m) \/ SyncAndExtract(m) \/ SyncInVain(m) \/ HandRows(m)
       \/ SendRows(m) \/ PutState(m) \/ CompleteLoad(m) \/ GiveUp(m)

Spec == Init /\ [][Next]_vars

-----------------------------------------------------------------------------
(* Properties                                                              *)

Pipeline(m) == <<setup[m].name, setup[m].dataset>>
Running(m) == setup[m].active /\ Via(m) = "http"

\* A load that dlt is told is complete, on any machine that gave none up.
Done(m) == todo[m] = {} /\ load[m] > 0 /\ \A g \in given : g[1] # m

\* The rows of a pipeline are all under one pid, which no other pipeline
\* shares, whichever clients on whichever machines have resolved it.  Clients
\* used without an active pipeline are no part of this.
OnePidPerPipeline ==
  \A x, y \in facts :
    Running(x[2]) /\ Running(y[2]) => (x[1] = y[1] <=> Pipeline(x[2]) = Pipeline(y[2]))

\* A load that is complete is closed at the pid that holds its rows.
CompletedLoadClosed ==
  \A m \in Machines : Done(m) /\ Via(m) = "http" =>
    \A x \in facts : x[2] = m /\ x[3] = load[m] => <<x[1], m, load[m]>> \in closed

\* The cursor a new machine would resume from skips no row, although the state
\* may be stored before the rows: a row below it is in the log or belongs to a
\* load that is under way or was given up.
NoSilentHole ==
  \A m \in Machines : LET p == registry[<<NameFor(m, "sync"), DatasetFor(m)>>] IN
    Running(m) /\ p # None /\ docs[p] # None =>
      \A r \in 1 .. docs[p].cursor : \E n \in Machines :
        /\ Pipeline(n) = Pipeline(m)
        /\ \/ \E x \in facts : x[2] = n /\ x[4] = r
           \/ todo[n] # {} /\ r \in package[n]
           \/ \E g \in given : g[1] = n /\ g[3] = r
=============================================================================
