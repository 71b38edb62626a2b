--------------------------- MODULE Identity_proofs ---------------------------
(***************************************************************************)
(* Theorems about Identity, for any number of machines, pids, rows and     *)
(* loads, and any setup of the machines.                                   *)
(***************************************************************************)
EXTENDS Identity, TLAPS

Tasks == {"sync", "rows", "state", "complete"}
State == [version : Nat, cursor : Nat]

\* What a use of m's client is registered under.
Key(m, t) == <<NameFor(m, t), DatasetFor(m)>>

TypeInv ==
  /\ setup \in Setups /\ source \in Nat
  /\ local \in [Machines -> State]
  /\ load \in [Machines -> Nat]
  /\ package \in [Machines -> SUBSET Nat]
  /\ todo \in [Machines -> SUBSET {"rows", "state", "complete"}]
  /\ task \in [Machines -> Tasks \cup {None}]
  /\ client \in [Machines -> Pids \cup {None}]
  /\ registry \in [Names \X Names -> Pids \cup {None}]
  /\ docs \in [Pids -> State \cup {None}]

\* A load that is not done has rows, and its completion still to come; only a
\* pipeline has a state job.
LoadOK(m) ==
  /\ todo[m] # {} => package[m] # {} /\ "complete" \in todo[m]
  /\ "state" \in todo[m] => setup[m].active

\* The open client does what is due, under the pid its task resolves to.
ClientOK(m) ==
  task[m] # None =>
    /\ task[m] = "sync" => setup[m].active /\ todo[m] = {}
    /\ task[m] # "sync" => task[m] \in todo[m]
    /\ task[m] = "complete" => todo[m] = {"complete"}
    /\ IF Via(m) = "file" THEN client[m] = None
       ELSE client[m] # None /\ client[m] = registry[Key(m, task[m])]

\* No two keys share a pid.
Injective ==
  \A j, k \in Names \X Names : registry[j] # None /\ registry[j] = registry[k] => j = k

MachinesOK == \A m \in Machines : LoadOK(m) /\ ClientOK(m)

\* Rows that were sent to the service are under the pid of their sender.
FactsOK ==
  \A x \in facts :
    /\ x[2] \in Machines
    /\ Via(x[2]) # "file" => x[1] # None /\ x[1] = registry[Key(x[2], "rows")]

\* A load that is done was closed under the same pid.
ClosedOK ==
  \A m \in Machines :
    todo[m] = {} /\ load[m] > 0 /\ (\A g \in given : g[1] # m) /\ Via(m) # "file" =>
      /\ registry[Key(m, "rows")] # None
      /\ <<registry[Key(m, "rows")], m, load[m]>> \in closed

PidInv == TypeInv /\ Injective /\ MachinesOK /\ FactsOK /\ ClosedOK

-----------------------------------------------------------------------------
(* Names and pids                                                          *)

\* Keys are keys of the registry.  All uses of a client that come with a load
\* agree on theirs, and with an active pipeline the state sync does too.
LEMMA Keys ==
  ASSUME setup \in Setups, NEW m \in Machines
  PROVE  /\ \A t \in Tasks : Key(m, t) \in Names \X Names
         /\ \A t \in Tasks : t # "sync" => Key(m, t) = Key(m, "rows")
         /\ setup[m].active => \A t \in Tasks : Key(m, t) = Pipeline(m)
         /\ Pipeline(m) \in Names \X Names
BY NamesAssumption DEF Key, NameFor, DatasetFor, Pipeline, Tasks

\* A registered key keeps its pid, and a new one gets a pid of its own.
LEMMA EnsureKeeps ==
  ASSUME TypeInv, Injective, NEW m \in Machines, NEW t \in Tasks, EnsurePid(m, t)
  PROVE  /\ registry' \in [Names \X Names -> Pids \cup {None}]
         /\ client' \in [Machines -> Pids \cup {None}]
         /\ Injective'
         /\ \A k \in Names \X Names : registry[k] # None => registry'[k] = registry[k]
         /\ \A k \in Names \X Names :
              registry'[k] # registry[k] => registry'[k] \in Unclaimed
         /\ \A n \in Machines \ {m} : client'[n] = client[n]
         /\ IF Via(m) = "file" THEN client'[m] = None
            ELSE client'[m] # None /\ client'[m] = registry'[Key(m, t)]
<1>1. t \in Resolving
  BY DEF Tasks, Resolving
<1>2. Key(m, t) \in Names \X Names
  BY Keys DEF TypeInv
<1>3. CASE Via(m) = "file"
  BY <1>1, <1>3 DEF EnsurePid, TypeInv, Injective
<1>4. CASE Via(m) # "file"
  <2>1. PICK p \in (IF registry[Key(m, t)] # None THEN {registry[Key(m, t)]} ELSE Unclaimed) :
          /\ registry' = [registry EXCEPT ![Key(m, t)] = p]
          /\ client' = [client EXCEPT ![m] = p]
    BY <1>1, <1>4 DEF EnsurePid, Key
  <2>2. /\ p \in Pids
        /\ registry[Key(m, t)] # None => p = registry[Key(m, t)]
        /\ registry[Key(m, t)] = None => \A k \in Names \X Names : registry[k] # p
    BY <1>2, <2>1 DEF Unclaimed, TypeInv
  <2>3. p # None
    BY <2>2, NoneAssumption
  <2>4. Injective'
    BY <1>2, <2>1, <2>2 DEF Injective, TypeInv
  <2>. QED
    BY <1>2, <1>4, <2>1, <2>2, <2>3, <2>4 DEF TypeInv
<1>. QED
  BY <1>3, <1>4

\* The machines are what they are.
LEMMA SetupStays ==
  ASSUME NEW m \in Machines, [Next]_vars
  PROVE  /\ setup' = setup /\ Via(m)' = Via(m) /\ Pipeline(m)' = Pipeline(m)
         /\ \A t \in Tasks : Key(m, t)' = Key(m, t)
<1>1. setup' = setup
  BY DEF Next, vars, Produce, Open, SyncAndExtract, SyncInVain, HandRows, SendRows,
         PutState, CompleteLoad, GiveUp
<1>. QED
  BY <1>1 DEF Via, Pipeline, Key, NameFor, DatasetFor

-----------------------------------------------------------------------------
(* Types                                                                   *)

\* The initial state has the types.
LEMMA TypeInit == Init => TypeInv
BY DEF Init, TypeInv, State

\* What a client reads back is a state, or what stands for none.
LEMMA StoredStateType ==
  ASSUME TypeInv, NEW m \in Machines
  PROVE  StoredState(m) \in State
BY DEF TypeInv, StoredState, State

\* Each step keeps the types, given that pids are not shared.
LEMMA TypeNext == TypeInv /\ Injective /\ MachinesOK /\ [Next]_vars => TypeInv'
<1>. SUFFICES ASSUME TypeInv, Injective, MachinesOK, [Next]_vars PROVE TypeInv'
  OBVIOUS
<1>. USE DEF TypeInv
<1>1. CASE Produce
  BY <1>1 DEF Produce, machineVars, serverVars
<1>2. ASSUME NEW m \in Machines, Open(m) PROVE TypeInv'
  <2>1. PICK t \in NextTasks(m) : task' = [task EXCEPT ![m] = t] /\ EnsurePid(m, t)
    BY <1>2 DEF Open
  <2>2. t \in Tasks
    BY DEF NextTasks, Tasks
  <2>. QED
    BY <1>2, <2>1, <2>2, EnsureKeeps DEF Open, machineVars
<1>3. ASSUME NEW m \in Machines, SyncAndExtract(m) PROVE TypeInv'
  <2>. DEFINE stored == StoredState(m)
              base == IF stored.version > local[m].version THEN stored ELSE local[m]
  <2>1. base \in State /\ base.version + 1 \in Nat
    BY StoredStateType DEF State
  <2>2. local' = [local EXCEPT ![m] = [version |-> base.version + 1, cursor |-> source]]
    BY <1>3 DEF SyncAndExtract
  <2>3. local' \in [Machines -> State]
    BY <2>1, <2>2 DEF State
  <2>. QED
    BY <1>3, <2>3 DEF SyncAndExtract, Package, CloseClient, serverVars
<1>4. ASSUME NEW m \in Machines, SyncInVain(m) PROVE TypeInv'
  BY <1>4 DEF SyncInVain, CloseClient, machineVars, serverVars
<1>5. ASSUME NEW m \in Machines, HandRows(m) PROVE TypeInv'
  BY <1>5 DEF HandRows, Package, serverVars
<1>6. ASSUME NEW m \in Machines, SendRows(m) PROVE TypeInv'
  BY <1>6 DEF SendRows, Answered, CloseClient
<1>7. ASSUME NEW m \in Machines, PutState(m) PROVE TypeInv'
  BY <1>7 DEF PutState, Answered, CloseClient
<1>8. ASSUME NEW m \in Machines, CompleteLoad(m) PROVE TypeInv'
  BY <1>8 DEF CompleteLoad, Answered, CloseClient
<1>9. ASSUME NEW m \in Machines, GiveUp(m) PROVE TypeInv'
  BY <1>9 DEF GiveUp, CloseClient, serverVars, State
<1>10. CASE UNCHANGED vars
  BY <1>10 DEF vars, machineVars, serverVars
<1>. QED
  BY <1>1, <1>2, <1>3, <1>4, <1>5, <1>6, <1>7, <1>8, <1>9, <1>10 DEF Next

-----------------------------------------------------------------------------
(* The pids                                                                *)

\* What a step that registers nobody and leaves the loads of other machines
\* alone does to the invariant is up to the machine it is a step of.
LEMMA OthersStay ==
  ASSUME TypeInv, MachinesOK, [Next]_vars, registry' = registry, NEW m \in Machines,
         \A n \in Machines \ {m} :
           todo'[n] = todo[n] /\ package'[n] = package[n] /\ task'[n] = task[n]
           /\ client'[n] = client[n],
         LoadOK(m)', ClientOK(m)'
  PROVE  MachinesOK'
<1>. SUFFICES ASSUME NEW n \in Machines, n # m PROVE LoadOK(n)' /\ ClientOK(n)'
  BY DEF MachinesOK
<1>1. LoadOK(n) /\ ClientOK(n) /\ task[n] \in Tasks \cup {None}
  BY DEF MachinesOK, TypeInv
<1>2. setup' = setup /\ Via(n)' = Via(n) /\ \A t \in Tasks : Key(n, t)' = Key(n, t)
  BY SetupStays
<1>. QED
  BY <1>1, <1>2 DEF LoadOK, ClientOK

\* Each step keeps the pid of an open client what the registry has for its task.
LEMMA MachinesNext == PidInv /\ [Next]_vars => MachinesOK'
<1>. SUFFICES ASSUME PidInv, [Next]_vars PROVE MachinesOK'
  OBVIOUS
<1>. USE DEF PidInv
<1>0. \A n \in Machines :
        /\ setup' = setup /\ Via(n)' = Via(n)
        /\ \A t \in Tasks : Key(n, t)' = Key(n, t)
        /\ task[n] \in Tasks \cup {None}
        /\ LoadOK(n) /\ ClientOK(n)
  BY SetupStays DEF TypeInv, MachinesOK
<1>1. CASE UNCHANGED <<todo, package, task, client, registry>>
  BY <1>0, <1>1 DEF MachinesOK, LoadOK, ClientOK
<1>2. ASSUME NEW m \in Machines, Open(m) PROVE MachinesOK'
  <2>1. PICK t \in NextTasks(m) : task' = [task EXCEPT ![m] = t] /\ EnsurePid(m, t)
    BY <1>2 DEF Open
  <2>2. t \in Tasks
    BY DEF NextTasks, Tasks, TypeInv
  <2>3. UNCHANGED <<todo, package>>
    BY <1>2 DEF Open, machineVars
  <2>4. /\ \A k \in Names \X Names : registry[k] # None => registry'[k] = registry[k]
        /\ \A n \in Machines \ {m} : client'[n] = client[n]
        /\ IF Via(m) = "file" THEN client'[m] = None
           ELSE client'[m] # None /\ client'[m] = registry'[Key(m, t)]
    BY <2>1, <2>2, EnsureKeeps
  <2>5. LoadOK(m)' /\ ClientOK(m)'
    <3>1. t = "sync" => setup[m].active /\ todo[m] = {}
      BY DEF NextTasks, TypeInv
    <3>2. t # "sync" => t \in todo[m]
      BY DEF NextTasks
    <3>3. t = "complete" => todo[m] = {"complete"}
      BY DEF NextTasks
    <3>. QED
      BY <1>0, <2>1, <2>2, <2>3, <2>4, <3>1, <3>2, <3>3 DEF LoadOK, ClientOK, TypeInv
  <2>6. ASSUME NEW n \in Machines, n # m PROVE LoadOK(n)' /\ ClientOK(n)'
    <3>1. \A u \in Tasks : Key(n, u) \in Names \X Names
      BY Keys DEF TypeInv
    <3>. QED
      BY <1>0, <2>1, <2>3, <2>4, <2>6, <3>1 DEF LoadOK, ClientOK, TypeInv
  <2>. QED
    BY <2>5, <2>6 DEF MachinesOK
<1>3. ASSUME NEW m \in Machines, SyncAndExtract(m) PROVE MachinesOK'
  <2>1. PICK rows : rows # {} /\ Package(m, rows, {"rows", "state"})
    BY <1>3 DEF SyncAndExtract, Package
  <2>2. setup[m].active
    BY <1>0, <1>3, NoneAssumption DEF SyncAndExtract, ClientOK
  <2>. QED
    BY <1>0, <1>3, <2>1, <2>2, OthersStay
    DEF SyncAndExtract, Package, CloseClient, LoadOK, ClientOK, TypeInv, serverVars
<1>4. ASSUME NEW m \in Machines, HandRows(m) PROVE MachinesOK'
  <2>1. /\ Package(m, 1 .. source, {"rows"}) /\ 1 .. source # {} /\ todo[m] = {}
        /\ ~setup[m].active /\ UNCHANGED <<task, client, registry>>
    BY <1>4 DEF HandRows, Package, serverVars
  <2>2. task[m] = None
    BY <1>0, <2>1 DEF ClientOK
  <2>. QED
    BY <1>0, <2>1, <2>2, OthersStay DEF Package, LoadOK, ClientOK, TypeInv
<1>5. ASSUME NEW m \in Machines, NEW t \in {"rows", "state", "complete"},
             task[m] = t, Answered(m, t), UNCHANGED <<package, registry>>
      PROVE  MachinesOK'
  <2>1. t \in todo[m] /\ (t = "complete" => todo[m] = {"complete"})
    BY <1>0, <1>5, NoneAssumption DEF ClientOK
  <2>2. LoadOK(m)'
    BY <1>0, <1>5, <2>1 DEF Answered, CloseClient, LoadOK, TypeInv
  <2>3. ClientOK(m)'
    BY <1>5 DEF Answered, CloseClient, ClientOK, TypeInv
  <2>. QED
    BY <1>0, <1>5, <2>2, <2>3, OthersStay DEF Answered, CloseClient, TypeInv
<1>6. ASSUME NEW m \in Machines, SendRows(m) PROVE MachinesOK'
  BY <1>5, <1>6 DEF SendRows
<1>7. ASSUME NEW m \in Machines, PutState(m) PROVE MachinesOK'
  BY <1>5, <1>7 DEF PutState
<1>8. ASSUME NEW m \in Machines, CompleteLoad(m) PROVE MachinesOK'
  BY <1>5, <1>8 DEF CompleteLoad
<1>9. ASSUME NEW m \in Machines, SyncInVain(m) PROVE MachinesOK'
  BY <1>0, <1>9, OthersStay
  DEF SyncInVain, CloseClient, LoadOK, ClientOK, TypeInv, machineVars, serverVars
<1>10. ASSUME NEW m \in Machines, GiveUp(m) PROVE MachinesOK'
  BY <1>0, <1>10, OthersStay
  DEF GiveUp, CloseClient, LoadOK, ClientOK, TypeInv, serverVars
<1>. QED
  BY <1>1, <1>2, <1>3, <1>4, <1>6, <1>7, <1>8, <1>9, <1>10
  DEF Next, vars, Produce, machineVars, serverVars
\* Only Open registers: a pid once given stays, and no two keys get one.
LEMMA RegistryNext ==
  PidInv /\ [Next]_vars =>
    /\ Injective'
    /\ \A k \in Names \X Names : registry[k] # None => registry'[k] = registry[k]
    /\ \A k \in Names \X Names :
         registry'[k] # registry[k] =>
           registry'[k] \in Unclaimed /\ UNCHANGED <<docs, facts, closed, todo, load, local,
                                                     package, given>>
<1>. SUFFICES ASSUME PidInv, [Next]_vars
              PROVE  /\ Injective'
                     /\ \A k \in Names \X Names : registry[k] # None => registry'[k] = registry[k]
                     /\ \A k \in Names \X Names : registry'[k] # registry[k] =>
                          registry'[k] \in Unclaimed
                          /\ UNCHANGED <<docs, facts, closed, todo, load, local, package, given>>
  OBVIOUS
<1>1. CASE registry' = registry
  BY <1>1 DEF PidInv, Injective
<1>2. ASSUME NEW m \in Machines, Open(m)
      PROVE  /\ Injective'
             /\ \A k \in Names \X Names : registry[k] # None => registry'[k] = registry[k]
             /\ \A k \in Names \X Names : registry'[k] # registry[k] => registry'[k] \in Unclaimed
             /\ UNCHANGED <<docs, facts, closed, todo, load, local, package, given>>
  <2>1. PICK t \in NextTasks(m) : EnsurePid(m, t)
    BY <1>2 DEF Open
  <2>2. t \in Tasks
    BY DEF NextTasks, Tasks, PidInv, TypeInv
  <2>. QED
    BY <1>2, <2>1, <2>2, EnsureKeeps DEF Open, PidInv, machineVars
<1>3. registry' = registry \/ \E m \in Machines : Open(m)
  BY DEF Next, vars, Produce, SyncAndExtract, SyncInVain, HandRows, SendRows,
         PutState, CompleteLoad, GiveUp, serverVars
<1>. QED
  BY <1>1, <1>2, <1>3

\* The client of an open task that goes to the service has the pid that the
\* machine's loads go to.
LEMMA ClientPid ==
  ASSUME PidInv, NEW m \in Machines, task[m] \in {"rows", "state", "complete"}, Via(m) # "file"
  PROVE  client[m] # None /\ client[m] = registry[Key(m, "rows")]
<1>1. ClientOK(m) /\ task[m] # None
  BY NoneAssumption DEF PidInv, MachinesOK
<1>2. Key(m, task[m]) = Key(m, "rows")
  BY Keys DEF PidInv, TypeInv, Tasks
<1>. QED
  BY <1>1, <1>2 DEF ClientOK

\* Each step keeps the rows at the service under the pid of their sender.
LEMMA FactsNext == PidInv /\ [Next]_vars => FactsOK'
<1>. SUFFICES ASSUME PidInv, [Next]_vars, NEW x \in facts'
              PROVE  /\ x[2] \in Machines
                     /\ Via(x[2])' # "file" => x[1] # None /\ x[1] = (registry[Key(x[2], "rows")])'
  BY DEF FactsOK
<1>0. \A m \in Machines : Via(m)' = Via(m) /\ Key(m, "rows")' = Key(m, "rows")
                          /\ Key(m, "rows") \in Names \X Names
  BY SetupStays, Keys DEF Tasks, PidInv, TypeInv
<1>1. CASE x \in facts
  BY <1>0, <1>1, RegistryNext DEF PidInv, FactsOK
<1>2. ASSUME NEW m \in Machines, SendRows(m), x \notin facts
      PROVE  x[2] = m /\ x[1] = client[m] /\ task[m] = "rows" /\ registry' = registry
  BY <1>2 DEF SendRows
<1>3. x \in facts \/ \E m \in Machines : SendRows(m)
  BY DEF Next, vars, Produce, Open, SyncAndExtract, SyncInVain, HandRows,
         PutState, CompleteLoad, GiveUp, serverVars
<1>. QED
  BY <1>0, <1>1, <1>2, <1>3, ClientPid

\* Each step keeps completed loads closed at that pid.
LEMMA ClosedNext == PidInv /\ [Next]_vars => ClosedOK'
<1>. SUFFICES ASSUME PidInv, [Next]_vars, NEW m \in Machines,
                     todo'[m] = {}, load'[m] > 0, \A g \in given' : g[1] # m, Via(m) # "file"
              PROVE  /\ registry'[Key(m, "rows")] # None
                     /\ <<registry'[Key(m, "rows")], m, load'[m]>> \in closed'
  BY SetupStays DEF ClosedOK, Tasks
<1>0. Key(m, "rows") \in Names \X Names
  BY Keys DEF Tasks, PidInv, TypeInv
<1>. DEFINE k == Key(m, "rows")
<1>1. CASE UNCHANGED <<todo, load>> \/ (todo'[m] = todo[m] /\ load'[m] = load[m])
  <2>1. given \subseteq given' /\ closed \subseteq closed'
    BY DEF Next, vars, Produce, Open, SyncAndExtract, SyncInVain, HandRows, SendRows,
           PutState, CompleteLoad, GiveUp, serverVars
  <2>2. registry[k] # None /\ <<registry[k], m, load[m]>> \in closed
    BY <1>1, <2>1 DEF PidInv, ClosedOK
  <2>. QED
    BY <1>0, <1>1, <2>1, <2>2, RegistryNext
<1>2. CASE SyncAndExtract(m) \/ HandRows(m)
  <2>1. PICK jobs : todo' = [todo EXCEPT ![m] = jobs \cup {"complete"}]
    BY <1>2 DEF SyncAndExtract, HandRows, Package
  <2>2. "complete" \in todo'[m]
    BY <2>1 DEF PidInv, TypeInv
  <2>. QED
    BY <2>2
<1>3. CASE task[m] \in {"rows", "state"} /\ Answered(m, task[m])
  <2>1. task[m] # None /\ LoadOK(m) /\ ClientOK(m)
    BY <1>3, NoneAssumption DEF PidInv, MachinesOK
  <2>2. "complete" \in todo[m]
    BY <1>3, <2>1 DEF LoadOK, ClientOK
  <2>. QED
    BY <1>3, <2>2 DEF Answered, PidInv, TypeInv
<1>4. CASE CompleteLoad(m)
  <2>1. client[m] # None /\ client[m] = registry[k]
    BY <1>4, ClientPid DEF CompleteLoad
  <2>2. closed' = closed \cup {<<client[m], m, load[m]>>} /\ UNCHANGED <<registry, load>>
    BY <1>4 DEF CompleteLoad
  <2>. QED
    BY <2>1, <2>2
<1>5. CASE GiveUp(m)
  <2>1. todo[m] # {} /\ given' = given \cup {<<m, load[m], r>> : r \in package[m]}
    BY <1>5 DEF GiveUp
  <2>2. PICK r : r \in package[m]
    BY <2>1 DEF PidInv, MachinesOK, LoadOK
  <2>3. <<m, load[m], r>> \in given'
    BY <2>1, <2>2
  <2>. QED
    BY <2>3
<1>6. \/ todo'[m] = todo[m] /\ load'[m] = load[m]
      \/ SyncAndExtract(m) \/ HandRows(m) \/ SendRows(m) \/ PutState(m) \/ CompleteLoad(m) \/ GiveUp(m)
  BY DEF Next, vars, Produce, Open, SyncAndExtract, SyncInVain, HandRows, SendRows, Package,
         PutState, CompleteLoad, GiveUp, Answered, machineVars, PidInv, TypeInv
<1>. QED
  BY <1>1, <1>2, <1>3, <1>4, <1>5, <1>6 DEF SendRows, PutState

\* No pid is given out at the start.
LEMMA PidInit == Init => PidInv
<1>. SUFFICES ASSUME Init PROVE PidInv
  OBVIOUS
<1>1. TypeInv
  BY TypeInit
<1>. QED
  BY <1>1 DEF Init, PidInv, Injective, MachinesOK, LoadOK, ClientOK, FactsOK, ClosedOK

\* Each step keeps all that is known of pids.
LEMMA PidNext == PidInv /\ [Next]_vars => PidInv'
<1>1. PidInv /\ [Next]_vars => TypeInv'
  BY TypeNext DEF PidInv
<1>. QED
  BY <1>1, MachinesNext, RegistryNext, FactsNext, ClosedNext DEF PidInv

\* The rows of a pipeline are under one pid, which it shares with no other.
THEOREM PipelinesHaveOnePid == Spec => []OnePidPerPipeline
<1>1. PidInv => OnePidPerPipeline
  <2>. SUFFICES ASSUME PidInv, NEW x \in facts, NEW y \in facts, Running(x[2]), Running(y[2])
                PROVE  x[1] = y[1] <=> Pipeline(x[2]) = Pipeline(y[2])
    BY DEF OnePidPerPipeline
  <2>1. ASSUME NEW z \in facts, Running(z[2])
        PROVE  /\ z[1] # None /\ z[1] = registry[Pipeline(z[2])]
               /\ Pipeline(z[2]) \in Names \X Names
    BY <2>1, Keys DEF PidInv, FactsOK, TypeInv, Running, Tasks
  <2>. QED
    BY <2>1 DEF PidInv, Injective
<1>. QED
  BY <1>1, PidInit, PidNext, PTL DEF Spec

\* A load that a machine takes for complete is closed under the pid its rows
\* are at, although each client of it has found that pid by itself.
THEOREM CompletedLoadsClosed == Spec => []CompletedLoadClosed
<1>1. PidInv => CompletedLoadClosed
  BY DEF PidInv, ClosedOK, FactsOK, CompletedLoadClosed, Done
<1>. QED
  BY <1>1, PidInit, PidNext, PTL DEF Spec

-----------------------------------------------------------------------------
(* The cursor                                                              *)

\* Row r of pipeline P is in the log, on its way there, or was given up.
CoveredBy(n, r) ==
  \/ \E x \in facts : x[2] = n /\ x[4] = r
  \/ todo[n] # {} /\ r \in package[n]
  \/ \E g \in given : g[1] = n /\ g[3] = r
Covered(P, r) == \E n \in Machines : Pipeline(n) = P /\ CoveredBy(n, r)

\* When the rows of a load are no longer to be sent, they were sent or given up.
SentOK ==
  \A m \in Machines : "rows" \notin todo[m] =>
    \A r \in package[m] : \/ \E x \in facts : x[2] = m /\ x[4] = r
                          \/ \E g \in given : g[1] = m /\ g[3] = r

\* No cursor, on a machine or at the service, is ahead of what is covered.
LocalOK == \A m \in Machines : \A r \in 1 .. local[m].cursor : Covered(Pipeline(m), r)
DocsOK ==
  /\ \A p \in Pids : docs[p] # None => \E k \in Names \X Names : registry[k] = p
  /\ \A k \in Names \X Names :
       registry[k] # None /\ docs[registry[k]] # None =>
         \A r \in 1 .. docs[registry[k]].cursor : Covered(k, r)

CursorInv == PidInv /\ SentOK /\ LocalOK /\ DocsOK

\* Each step keeps the rows behind what a machine has sent sent, under way or given up.
LEMMA SentNext == CursorInv /\ [Next]_vars => SentOK'
<1>. SUFFICES ASSUME CursorInv, [Next]_vars, NEW m \in Machines, "rows" \notin todo'[m],
                     NEW r \in package'[m]
              PROVE  \/ \E x \in facts' : x[2] = m /\ x[4] = r
                     \/ \E g \in given' : g[1] = m /\ g[3] = r
  BY DEF SentOK
<1>0. TypeInv /\ LoadOK(m) /\ ClientOK(m)
  BY DEF CursorInv, PidInv, MachinesOK
<1>1. facts \subseteq facts' /\ given \subseteq given'
  BY DEF Next, vars, Produce, Open, SyncAndExtract, SyncInVain, HandRows, SendRows,
         PutState, CompleteLoad, GiveUp, serverVars
<1>2. CASE "rows" \notin todo[m] /\ package'[m] = package[m]
  BY <1>1, <1>2 DEF CursorInv, SentOK
<1>3. CASE SyncAndExtract(m) \/ HandRows(m)
  <2>1. PICK jobs : "rows" \in jobs /\ todo' = [todo EXCEPT ![m] = jobs \cup {"complete"}]
    BY <1>3 DEF SyncAndExtract, HandRows, Package
  <2>. QED
    BY <1>0, <2>1 DEF TypeInv
<1>4. CASE SendRows(m)
  <2>1. facts' = facts \cup {<<client[m], m, load[m], q>> : q \in package[m]} /\ r \in package[m]
    BY <1>4 DEF SendRows
  <2>2. <<client[m], m, load[m], r>> \in facts'
    BY <2>1
  <2>. QED
    BY <2>2
<1>5. CASE GiveUp(m)
  <2>1. given' = given \cup {<<m, load[m], q>> : q \in package[m]} /\ r \in package[m]
    BY <1>5 DEF GiveUp
  <2>2. <<m, load[m], r>> \in given'
    BY <2>1
  <2>. QED
    BY <2>2
<1>6. \/ package'[m] = package[m] /\ ("rows" \in todo[m] => "rows" \in todo'[m])
      \/ SyncAndExtract(m) \/ HandRows(m) \/ SendRows(m) \/ GiveUp(m) \/ CompleteLoad(m)
  BY <1>0 DEF Next, vars, Produce, Open, SyncAndExtract, SyncInVain, HandRows, SendRows, Package,
         PutState, CompleteLoad, GiveUp, Answered, machineVars, TypeInv
<1>7. CASE CompleteLoad(m)
  <2>1. todo[m] = {"complete"} /\ package'[m] = package[m]
    BY <1>0, <1>7, NoneAssumption DEF CompleteLoad, ClientOK
  <2>. QED
    BY <1>2, <2>1
<1>. QED
  BY <1>2, <1>3, <1>4, <1>5, <1>6, <1>7

\* What a machine covers stays covered: a load ends with its rows sent, or
\* given up.
LEMMA CoveredStays ==
  ASSUME CursorInv, [Next]_vars, NEW n \in Machines, NEW r, CoveredBy(n, r)
  PROVE  CoveredBy(n, r)'
<1>1. facts \subseteq facts' /\ given \subseteq given'
  BY DEF Next, vars, Produce, Open, SyncAndExtract, SyncInVain, HandRows, SendRows,
         PutState, CompleteLoad, GiveUp, serverVars
<1>2. CASE \/ \E x \in facts : x[2] = n /\ x[4] = r
           \/ \E g \in given : g[1] = n /\ g[3] = r
  BY <1>1, <1>2 DEF CoveredBy
<1>3. CASE todo[n] # {} /\ r \in package[n]
  <2>0. TypeInv /\ ClientOK(n) /\ SentOK'
    BY SentNext DEF CursorInv, PidInv, MachinesOK
  <2>1. package'[n] = package[n]
    BY <1>3, <2>0, NoneAssumption
    DEF Next, vars, Produce, Open, SyncAndExtract, SyncInVain, HandRows, SendRows, Package,
        PutState, CompleteLoad, GiveUp, machineVars, TypeInv, ClientOK
  <2>2. CASE todo'[n] # {}
    BY <1>3, <2>1, <2>2 DEF CoveredBy
  <2>3. CASE todo'[n] = {}
    BY <1>3, <2>0, <2>1, <2>3 DEF SentOK, CoveredBy
  <2>. QED
    BY <2>2, <2>3
<1>. QED
  BY <1>2, <1>3 DEF CoveredBy

\* The state a machine's sync starts from is covered, its own or the stored one.
LEMMA StoredCovered ==
  ASSUME CursorInv, NEW m \in Machines, task[m] = "sync", NEW r \in 1 .. StoredState(m).cursor
  PROVE  Covered(Pipeline(m), r)
<1>0. TypeInv /\ ClientOK(m) /\ task[m] # None
  BY NoneAssumption DEF CursorInv, PidInv, MachinesOK
<1>1. client[m] # None /\ docs[client[m]] # None /\ r \in 1 .. docs[client[m]].cursor
  BY DEF StoredState
<1>2. setup[m].active /\ client[m] = registry[Key(m, "sync")]
  BY <1>0, <1>1 DEF ClientOK
<1>3. Key(m, "sync") = Pipeline(m) /\ Pipeline(m) \in Names \X Names
  BY <1>0, <1>2, Keys DEF TypeInv, Tasks
<1>. QED
  BY <1>1, <1>2, <1>3 DEF CursorInv, DocsOK

\* Each step keeps the local cursors behind what is covered.
LEMMA LocalNext == CursorInv /\ [Next]_vars => LocalOK'
<1>. SUFFICES ASSUME CursorInv, [Next]_vars, NEW m \in Machines, NEW r \in 1 .. local'[m].cursor
              PROVE  \E n \in Machines : Pipeline(n) = Pipeline(m) /\ CoveredBy(n, r)'
  BY SetupStays DEF LocalOK, Covered
<1>0. TypeInv
  BY DEF CursorInv, PidInv
<1>1. ASSUME Covered(Pipeline(m), r)
      PROVE  \E n \in Machines : Pipeline(n) = Pipeline(m) /\ CoveredBy(n, r)'
  BY <1>1, CoveredStays DEF Covered
<1>2. CASE local'[m] = local[m]
  BY <1>1, <1>2 DEF CursorInv, LocalOK
<1>3. CASE SyncAndExtract(m)
  <2>. DEFINE stored == StoredState(m)
              base == IF stored.version > local[m].version THEN stored ELSE local[m]
              rows == {q \in 1 .. source : q > base.cursor}
  <2>1. /\ task[m] = "sync" /\ Package(m, rows, {"rows", "state"})
        /\ local' = [local EXCEPT ![m] = [version |-> base.version + 1, cursor |-> source]]
    BY <1>3 DEF SyncAndExtract
  <2>2. base \in State
    BY <1>0, StoredStateType DEF TypeInv, State
  <2>3. r \in 1 .. source
    BY <1>0, <2>1 DEF TypeInv
  <2>4. CASE r > base.cursor
    <3>1. todo'[m] # {} /\ r \in package'[m]
      BY <1>0, <2>1, <2>3, <2>4 DEF Package, TypeInv
    <3>. QED
      BY <3>1 DEF CoveredBy
  <2>5. CASE ~(r > base.cursor)
    <3>1. r \in 1 .. base.cursor
      BY <1>0, <2>2, <2>3, <2>5 DEF State, TypeInv
    <3>2. Covered(Pipeline(m), r)
      BY <2>1, <3>1, StoredCovered DEF CursorInv, LocalOK
    <3>. QED
      BY <1>1, <3>2
  <2>. QED
    BY <2>4, <2>5
<1>4. CASE GiveUp(m)
  <2>1. local'[m] = local[m] \/ local'[m].cursor = 0
    BY <1>0, <1>4 DEF GiveUp, TypeInv
  <2>. QED
    BY <1>2, <2>1
<1>5. ASSUME NEW n \in Machines, n # m, SyncAndExtract(n) \/ GiveUp(n)
      PROVE  local'[m] = local[m]
  BY <1>0, <1>5 DEF SyncAndExtract, GiveUp, TypeInv
<1>6. local' = local \/ \E n \in Machines : SyncAndExtract(n) \/ GiveUp(n)
  BY DEF Next, vars, Produce, Open, SyncInVain, HandRows, SendRows, PutState, CompleteLoad,
         machineVars
<1>. QED
  BY <1>2, <1>3, <1>4, <1>5, <1>6

\* Each step keeps the stored cursors behind what is covered.
LEMMA DocsNext == CursorInv /\ [Next]_vars => DocsOK'
<1>. SUFFICES ASSUME CursorInv, [Next]_vars PROVE DocsOK'
  OBVIOUS
<1>0. /\ TypeInv /\ Injective /\ Injective'
      /\ \A k \in Names \X Names : registry[k] # None => registry'[k] = registry[k]
      /\ \A k \in Names \X Names : registry'[k] # registry[k] => registry'[k] \in Unclaimed
                                                                /\ docs' = docs
  BY RegistryNext DEF CursorInv, PidInv
<1>1. ASSUME NEW k \in Names \X Names, NEW r, Covered(k, r)
      PROVE  Covered(k, r)'
  <2>1. PICK n \in Machines : Pipeline(n) = k /\ CoveredBy(n, r)
    BY <1>1 DEF Covered
  <2>. QED
    BY <2>1, CoveredStays, SetupStays DEF Covered
<1>2. CASE docs' = docs
  <2>1. \A p \in Pids : docs'[p] # None => \E k \in Names \X Names : registry'[k] = p
    BY <1>0, <1>2, NoneAssumption DEF CursorInv, DocsOK
  <2>2. ASSUME NEW k \in Names \X Names, registry'[k] # None, docs'[registry'[k]] # None,
               NEW r \in 1 .. docs'[registry'[k]].cursor
        PROVE  Covered(k, r)
    <3>1. registry'[k] = registry[k]
      <4>1. SUFFICES ASSUME registry'[k] # registry[k] PROVE FALSE
        OBVIOUS
      <4>2. registry'[k] \in Unclaimed
        BY <1>0, <4>1
      <4>3. \E j \in Names \X Names : registry[j] = registry'[k]
        BY <1>2, <2>2, <4>2 DEF CursorInv, DocsOK, Unclaimed
      <4>. QED
        BY <1>0, <4>2, <4>3 DEF Unclaimed, TypeInv
    <3>. QED
      BY <1>2, <2>2, <3>1 DEF CursorInv, DocsOK
  <2>. QED
    BY <1>1, <2>1, <2>2 DEF DocsOK
<1>3. ASSUME NEW m \in Machines, PutState(m), docs' # docs PROVE DocsOK'
  <2>. DEFINE p == client[m]
  <2>1. /\ task[m] = "state" /\ p # None /\ registry' = registry
        /\ docs' = [docs EXCEPT ![p] = local[m]]
    BY <1>3 DEF PutState
  <2>2. setup[m].active /\ Via(m) # "file" /\ p = registry[Key(m, "state")]
    BY <2>1, NoneAssumption DEF CursorInv, PidInv, MachinesOK, LoadOK, ClientOK
  <2>3. p = registry[Pipeline(m)] /\ Pipeline(m) \in Names \X Names
    BY <1>0, <2>2, Keys DEF TypeInv, Tasks
  <2>4. ASSUME NEW q \in Pids, docs'[q] # None
        PROVE  \E k \in Names \X Names : registry'[k] = q
    BY <1>0, <2>1, <2>3, <2>4 DEF CursorInv, DocsOK, TypeInv
  <2>5. ASSUME NEW k \in Names \X Names, registry'[k] # None, docs'[registry'[k]] # None,
               NEW r \in 1 .. docs'[registry'[k]].cursor
        PROVE  Covered(k, r)
    <3>1. CASE registry[k] = p
      <4>1. k = Pipeline(m)
        BY <1>0, <2>1, <2>3, <3>1 DEF Injective
      <4>2. r \in 1 .. local[m].cursor
        BY <1>0, <2>1, <2>5, <3>1 DEF TypeInv
      <4>. QED
        BY <4>1, <4>2 DEF CursorInv, LocalOK
    <3>2. CASE registry[k] # p
      BY <1>0, <2>1, <2>5, <3>2 DEF CursorInv, DocsOK, TypeInv
    <3>. QED
      BY <3>1, <3>2
  <2>. QED
    BY <1>1, <2>4, <2>5 DEF DocsOK
<1>4. docs' = docs \/ \E m \in Machines : PutState(m)
  BY DEF Next, vars, Produce, Open, SyncAndExtract, SyncInVain, HandRows, SendRows,
         CompleteLoad, GiveUp, serverVars
<1>. QED
  BY <1>2, <1>3, <1>4

\* Whatever the order of the jobs, retries and losses, the cursor that a machine
\* resumes from skips no row that was not sent, under way or given up.
THEOREM NoHoles == Spec => []NoSilentHole
<1>1. Init => CursorInv
  <2>. SUFFICES ASSUME Init PROVE CursorInv
    OBVIOUS
  <2>1. PidInv
    BY PidInit
  <2>. QED
    BY <2>1 DEF Init, CursorInv, SentOK, LocalOK, DocsOK
<1>2. CursorInv /\ [Next]_vars => CursorInv'
  BY PidNext, SentNext, LocalNext, DocsNext DEF CursorInv
<1>3. CursorInv => NoSilentHole
  <2>. SUFFICES ASSUME CursorInv, NEW m \in Machines, Running(m),
                       NEW p, p = registry[<<NameFor(m, "sync"), DatasetFor(m)>>],
                       p # None, docs[p] # None, NEW r \in 1 .. docs[p].cursor
                PROVE  \E n \in Machines : Pipeline(n) = Pipeline(m) /\ CoveredBy(n, r)
    BY DEF NoSilentHole, CoveredBy
  <2>1. p = registry[Pipeline(m)] /\ Pipeline(m) \in Names \X Names
    BY Keys DEF CursorInv, PidInv, TypeInv, Running, Key, Tasks
  <2>. QED
    BY <2>1 DEF CursorInv, DocsOK, Covered
<1>. QED
  BY <1>1, <1>2, <1>3, PTL DEF Spec
=============================================================================
