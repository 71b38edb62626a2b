------------------------- MODULE LoadPipeline_proofs -------------------------
(***************************************************************************)
(* Theorems about LoadPipeline, for any number of machines, jobs, chunks,  *)
(* retries and faults.  The pipeline is the service with clients attached: *)
(* what is proved of the service holds in it, and is what the theorems     *)
(* about completed loads are built on.  The last part is about the order   *)
(* in which the chunks of a job land, and why a completed load stays as it *)
(* is: handlers of requests that were given up run on; what keeps them     *)
(* from doing harm is that their rows are marked as landed by then.        *)
(***************************************************************************)
EXTENDS LoadPipeline, IngestServer_proofs

\* A load may carry any version of the state document.
AnyVersion == Docs = Nat \ {0}

ServerJobs == (UNION {DOMAIN Package[m] : m \in Machines}) \cup {StateJob}

\* The request a machine is about to send, or waits for.
InFlight(m) == phase[m] \in {"send", "wait"}

\* The client's variables have their types.
ClientVarsOK ==
  /\ phase \in [Machines -> {"start", "ready", "send", "wait", "done", "failed"}]
  /\ todo \in [Machines -> SUBSET ServerJobs]
  /\ job \in [Machines -> ServerJobs \cup {None}]
  /\ seq \in [Machines -> Nat]
  /\ attempt \in [Machines -> Nat]
  /\ at \in [Machines -> Threads \cup {None}]
  /\ docOf \in [Machines -> Nat]
  /\ faults \in 0 .. MaxFaults

\* What a machine sends is a chunk of a job it has left, or its state.
RequestOK(m) ==
  /\ todo[m] \subseteq DOMAIN Package[m] \cup {StateJob}
  /\ phase[m] # "start" => docOf[m] \in Nat \ {0}
  /\ InFlight(m) =>
       /\ job[m] \in todo[m] /\ attempt[m] < MaxRetries
       /\ job[m] = StateJob \/ seq[m] + 1 \in DOMAIN Package[m][job[m]]
  /\ phase[m] = "done" => todo[m] = {}

\* The thread that serves a machine has that request until it has answered.
ServedOK(m) ==
  /\ phase[m] = "wait" <=> at[m] # None
  /\ phase[m] = "wait" =>
       /\ pc[at[m]] # "idle"
       /\ IF job[m] = StateJob
          THEN at[m] \in StateThreads /\ doc[at[m]] = docOf[m]
          ELSE at[m] \in IngestThreads /\ chunk[at[m]] = Package[m][job[m]][seq[m] + 1]

OneEach == \A m, n \in Machines : at[m] # None /\ at[m] = at[n] => m = n

ClientInv ==
  /\ ClientVarsOK /\ OneEach
  /\ \A m \in Machines : RequestOK(m) /\ ServedOK(m)

-----------------------------------------------------------------------------
(* The pipeline is the service with clients                                *)

\* Jobs are non-empty sequences of the chunks of their load.
LEMMA PackageFacts ==
  ASSUME NEW m \in Machines, NEW j \in DOMAIN Package[m]
  PROVE  /\ Package[m][j] \in Seq(Chunks) /\ Len(Package[m][j]) \in Nat \ {0}
         /\ DOMAIN Package[m][j] = 1 .. Len(Package[m][j])
         /\ \A n \in 1 .. Len(Package[m][j]) : Package[m][j][n] \in Chunks
         /\ j # StateJob /\ j \in ServerJobs
<1>1. Package[m][j] \in Seq(Chunks) /\ Package[m][j] # <<>>
  BY PackageAssumption
<1>2. j # StateJob /\ j \in ServerJobs
  BY MachinesAssumption DEF ServerJobs
<1>. QED
  BY <1>1, <1>2

\* Every step of the pipeline is one of the service, or none.
LEMMA StepOfServer ==
  ASSUME AnyVersion, ClientInv, [PipelineNext]_allVars
  PROVE  [Next]_vars
<1>1. ASSUME NEW m \in Machines, Send(m)
      PROVE  Next
  <2>1. phase[m] = "send" /\ RequestOK(m)
    BY <1>1 DEF Send, ClientInv
  <2>2. CASE job[m] = StateJob
    <3>1. PICK t \in StateThreads : ArriveState(t, docOf[m])
      BY <1>1, <2>2 DEF Send
    <3>2. docOf[m] \in Docs
      BY <2>1 DEF RequestOK, AnyVersion
    <3>. QED
      BY <3>1, <3>2 DEF Next
  <2>3. CASE job[m] # StateJob
    <3>1. PICK t \in IngestThreads : ArriveIngest(t, Package[m][job[m]][seq[m] + 1])
      BY <1>1, <2>3 DEF Send
    <3>2. job[m] \in DOMAIN Package[m] /\ seq[m] + 1 \in DOMAIN Package[m][job[m]]
      BY <2>1, <2>3 DEF RequestOK, InFlight
    <3>3. Package[m][job[m]][seq[m] + 1] \in Chunks
      BY <3>2, PackageFacts
    <3>. QED
      BY <3>1, <3>3 DEF Next
  <2>. QED
    BY <2>2, <2>3
<1>2. ASSUME NEW m \in Machines, Receive(m)
      PROVE  Next
  <2>1. at[m] \in Threads
    BY <1>2, MachinesAssumption DEF Receive, ClientInv, ClientVarsOK, ServedOK
  <2>. QED
    BY <1>2, <2>1 DEF Receive, Next, LockStep
<1>3. ASSUME NEW m \in Machines, Close(m)
      PROVE  Next
  BY <1>3, MachinesAssumption DEF Close, Next
<1>4. ASSUME NEW m \in Machines, Start(m) \/ RunJob(m) \/ Interrupt(m)
      PROVE  UNCHANGED vars
  BY <1>4 DEF Start, RunJob, Interrupt
<1>5. ASSUME NEW t \in Threads, HandlerStep(t) \/ DropReply(t)
      PROVE  Next
  BY <1>5 DEF HandlerStep, DropReply, Next, LockStep
<1>6. CASE Pause
  BY <1>6 DEF Next
<1>7. CASE UNCHANGED allVars
  BY <1>7 DEF allVars
<1>. QED
  BY <1>1, <1>2, <1>3, <1>4, <1>5, <1>6, <1>7
  DEF PipelineNext, MachineStep, NextChunk, JobDone, Contended, Refused, Transient

-----------------------------------------------------------------------------
(* The clients' invariant                                                  *)

\* The machines start between two requests.
LEMMA ClientInit == PipelineInit => ClientInv
<1>. SUFFICES ASSUME PipelineInit PROVE ClientInv
  OBVIOUS
<1>. USE DEF PipelineInit
<1>0. ASSUME NEW m \in Machines
      PROVE  DOMAIN Package[m] \cup {StateJob} \in SUBSET ServerJobs
  <2>1. DOMAIN Package[m] \subseteq ServerJobs
    BY DEF ServerJobs
  <2>2. StateJob \in ServerJobs
    BY DEF ServerJobs
  <2>. QED
    BY <2>1, <2>2
<1>1. ClientVarsOK
  <2>1. /\ phase \in [Machines -> {"start", "ready", "send", "wait", "done", "failed"}]
        /\ job \in [Machines -> ServerJobs \cup {None}] /\ at \in [Machines -> Threads \cup {None}]
        /\ seq \in [Machines -> Nat] /\ attempt \in [Machines -> Nat] /\ docOf \in [Machines -> Nat]
    OBVIOUS
  <2>2. todo \in [Machines -> SUBSET ServerJobs]
    BY <1>0
  <2>3. faults \in 0 .. MaxFaults
    BY RetriesAssumption
  <2>. QED
    BY <2>1, <2>2, <2>3 DEF ClientVarsOK
<1>2. OneEach /\ \A m \in Machines : RequestOK(m) /\ ServedOK(m)
  BY DEF OneEach, RequestOK, ServedOK, InFlight
<1>. QED
  BY <1>1, <1>2 DEF ClientInv

\* A handler keeps the request it has until it has answered and is finished.
LEMMA HandlerKeeps ==
  ASSUME TypeOK, NEW t \in Threads, HandlerStep(t)
  PROVE  /\ UNCHANGED <<chunk, doc>>
         /\ \A u \in Threads : pc[u] # "idle" => pc'[u] # "idle"
<1>1. pc \in [Threads -> Labels]
  BY LogTypes
<1>2. UNCHANGED requestVars /\ \E label \in Labels \ {"idle"} : pc' = [pc EXCEPT ![t] = label]
  <2>1. CASE t \in IngestThreads /\ IngestStep(t)
    BY <2>1 DEF IngestStep, LedgerCheck, RefuseClosed, Admit, Abort, Commit, Mark, Record, PassOrCrash,
       Goto, Labels
  <2>2. CASE t \in StateThreads /\ StateStep(t)
    BY <2>2 DEF StateStep, Compare, Store, Goto, Labels
  <2>3. CASE ClaimRefused(t) \/ Claim(t) \/ Release(t)
    BY <2>3 DEF ClaimRefused, Claim, Release, Goto, Labels
  <2>. QED
    BY <2>1, <2>2, <2>3 DEF HandlerStep
<1>. QED
  BY <1>1, <1>2 DEF requestVars

\* The thread of a request that goes on has not lost it.
Keeps(u) ==
  /\ pc[u] # "idle" => pc'[u] # "idle"
  /\ u \in IngestThreads => chunk'[u] = chunk[u]
  /\ u \in StateThreads => doc'[u] = doc[u]

\* A machine that does nothing is served as before.
LEMMA OthersStay ==
  ASSUME NEW n \in Machines, RequestOK(n), ServedOK(n),
         phase'[n] = phase[n], todo'[n] = todo[n], job'[n] = job[n], seq'[n] = seq[n],
         attempt'[n] = attempt[n], at'[n] = at[n], docOf'[n] = docOf[n],
         at[n] # None => Keeps(at[n])
  PROVE  RequestOK(n)' /\ ServedOK(n)'
BY DEF RequestOK, ServedOK, InFlight, Keeps

\* Only m's thread loses a request when m gets its answer.
LEMMA ReceiveKeeps ==
  ASSUME TypeOK, ClientInv, NEW m \in Machines, Receive(m)
  PROVE  /\ at[m] \in Threads /\ at' = [at EXCEPT ![m] = None] /\ phase[m] = "wait"
         /\ UNCHANGED <<docOf, faults>>
         /\ \A n \in Machines : n # m /\ at[n] # None => Keeps(at[n])
<1>1. phase[m] = "wait" /\ at[m] \in Threads /\ at[m] # None
  BY MachinesAssumption DEF Receive, ClientInv, ClientVarsOK, ServedOK
<1>2. \A n \in Machines : n # m /\ at[n] # None => at[n] # at[m]
  BY <1>1 DEF ClientInv, OneEach
<1>3. ASSUME NEW u \in Threads, u # at[m]
      PROVE  Keeps(u)
  BY <1>1, <1>3, LogTypes, StateTypes
     DEF Receive, Finish, Goto, Keeps, TypeOK, ThreadTypeOK, Threads
<1>4. \A n \in Machines : at[n] # None => at[n] \in Threads
  BY DEF ClientInv, ClientVarsOK
<1>. QED
  BY <1>1, <1>2, <1>3, <1>4 DEF Receive

\* What a machine sends is well formed, it is served by one thread at a time,
\* and its budgets are kept to.
LEMMA ClientNext ==
  ASSUME TypeOK, ClientInv, [PipelineNext]_allVars
  PROVE  ClientInv'
<1>. USE RetriesAssumption
<1>0. ClientVarsOK /\ OneEach /\ \A n \in Machines : RequestOK(n) /\ ServedOK(n)
  BY DEF ClientInv
<1>1. ASSUME NEW m \in Machines, Start(m)
      PROVE  ClientInv'
  <2>1. ClientVarsOK'
    BY <1>0, <1>1, StateTypes DEF Start, EnterPhase, ClientVarsOK
  <2>2. OneEach'
    BY <1>0, <1>1 DEF Start, OneEach
  <2>3. dltState \in Nat /\ dltState + 1 \in Nat \ {0}
    BY StateTypes
  <2>4. RequestOK(m)' /\ ServedOK(m)'
    BY <1>0, <1>1, <2>3 DEF Start, EnterPhase, ClientVarsOK, RequestOK, ServedOK, InFlight
  <2>5. \A n \in Machines : n # m => RequestOK(n)' /\ ServedOK(n)'
    BY <1>0, <1>1, OthersStay DEF Start, EnterPhase, ClientVarsOK, Keeps, vars, requestVars
  <2>. QED
    BY <2>1, <2>2, <2>4, <2>5 DEF ClientInv
<1>2. ASSUME NEW m \in Machines, RunJob(m)
      PROVE  ClientInv'
  <2>1. PICK j \in todo[m] : job' = [job EXCEPT ![m] = j]
    BY <1>2 DEF RunJob
  <2>2. j \in ServerJobs /\ (j = StateJob \/ j \in DOMAIN Package[m])
    BY <1>0 DEF ClientVarsOK, RequestOK
  <2>3. ClientVarsOK'
    BY <1>0, <1>2, <2>1, <2>2 DEF RunJob, EnterPhase, ClientVarsOK
  <2>4. OneEach'
    BY <1>0, <1>2 DEF RunJob, OneEach
  <2>5. j # StateJob => 1 \in DOMAIN Package[m][j]
    BY <2>2, PackageFacts
  <2>6. RequestOK(m)' /\ ServedOK(m)'
    BY <1>0, <1>2, <2>1, <2>2, <2>5
       DEF RunJob, EnterPhase, ClientVarsOK, RequestOK, ServedOK, InFlight
  <2>7. \A n \in Machines : n # m => RequestOK(n)' /\ ServedOK(n)'
    BY <1>0, <1>2, OthersStay DEF RunJob, EnterPhase, ClientVarsOK, Keeps, vars, requestVars
  <2>. QED
    BY <2>3, <2>4, <2>6, <2>7 DEF ClientInv
<1>3. ASSUME NEW m \in Machines, Send(m)
      PROVE  ClientInv'
  <2>1. PICK t \in Threads :
          /\ IF job[m] = StateJob
             THEN t \in StateThreads /\ ArriveState(t, docOf[m])
             ELSE t \in IngestThreads /\ ArriveIngest(t, Package[m][job[m]][seq[m] + 1])
          /\ at' = [at EXCEPT ![m] = t]
    BY <1>3 DEF Send
  <2>2. t # None /\ pc[t] = "idle"
    BY <2>1, MachinesAssumption DEF ArriveState, ArriveIngest
  <2>3. /\ phase[m] = "send" /\ phase' = [phase EXCEPT ![m] = "wait"]
        /\ UNCHANGED <<todo, job, seq, attempt, docOf, faults>>
    BY <1>3 DEF Send, EnterPhase
  <2>4. ClientVarsOK'
    BY <1>0, <2>1, <2>3 DEF ClientVarsOK
  <2>5. \A n \in Machines : at[n] # t
    BY <1>0, <2>2 DEF ServedOK
  <2>6. OneEach'
    BY <1>0, <2>1, <2>5 DEF OneEach, ClientVarsOK
  <2>7. pc'[t] # "idle" /\ IF job[m] = StateJob THEN doc'[t] = docOf[m]
                           ELSE chunk'[t] = Package[m][job[m]][seq[m] + 1]
    BY <2>1, LogTypes DEF ArriveState, ArriveIngest, Goto, TypeOK, ThreadTypeOK
  <2>8. RequestOK(m)' /\ ServedOK(m)'
    <3>1. at'[m] = t /\ phase'[m] = "wait"
      BY <1>0, <2>1, <2>3 DEF ClientVarsOK
    <3>. QED
      BY <1>0, <2>1, <2>2, <2>3, <2>7, <3>1 DEF RequestOK, ServedOK, InFlight
  <2>9. \A u \in Threads : u # t => Keeps(u)
    BY <2>1, LogTypes DEF ArriveState, ArriveIngest, Goto, Keeps, TypeOK, ThreadTypeOK
  <2>10. \A n \in Machines : n # m => RequestOK(n)' /\ ServedOK(n)'
    <3>1. \A n \in Machines : n # m => phase'[n] = phase[n] /\ at'[n] = at[n]
                                       /\ (at[n] # None => Keeps(at[n]))
      BY <1>0, <2>1, <2>3, <2>5, <2>9 DEF ClientVarsOK
    <3>. QED
      BY <1>0, <2>3, <3>1, OthersStay
  <2>. QED
    BY <2>4, <2>6, <2>8, <2>10 DEF ClientInv
<1>4. ASSUME NEW m \in Machines, Receive(m),
             NextChunk(m) \/ JobDone(m) \/ Contended(m) \/ Refused(m) \/ Transient(m)
      PROVE  ClientInv'
  <2>1. /\ at[m] \in Threads /\ at' = [at EXCEPT ![m] = None] /\ phase[m] = "wait"
        /\ UNCHANGED <<docOf, faults>>
        /\ \A n \in Machines : n # m /\ at[n] # None => Keeps(at[n])
    BY <1>4, ReceiveKeeps
  <2>2. job[m] \in todo[m] /\ attempt[m] < MaxRetries /\ attempt[m] \in Nat /\ seq[m] \in Nat
    BY <1>0, <2>1 DEF RequestOK, InFlight, ClientVarsOK
  <2>3. /\ job' = job
        /\ \E p \in {"send", "ready", "failed"} : phase' = [phase EXCEPT ![m] = p]
        /\ \E d \in SUBSET todo[m] : todo' = [todo EXCEPT ![m] = d]
        /\ \E n \in Nat : seq' = [seq EXCEPT ![m] = n]
        /\ \E n \in Nat : attempt' = [attempt EXCEPT ![m] = n]
        /\ phase'[m] = "send" => attempt'[m] < MaxRetries
        /\ phase'[m] = "send" => todo' = todo
        /\ phase'[m] = "send" => seq' = seq \/ (seq'[m] = seq[m] + 1 /\ MoreChunks(m))
    <3>. USE <1>0, <2>2 DEF ClientVarsOK, EnterPhase
    <3>1. CASE NextChunk(m)
      <4>1. /\ MoreChunks(m) /\ UNCHANGED <<todo, job>> /\ phase' = [phase EXCEPT ![m] = "send"]
            /\ seq' = [seq EXCEPT ![m] = seq[m] + 1] /\ attempt' = [attempt EXCEPT ![m] = 0]
        BY <3>1 DEF NextChunk
      <4>2. todo' = [todo EXCEPT ![m] = todo[m]] /\ seq[m] + 1 \in Nat /\ 0 \in Nat
        BY <4>1
      <4>3. seq'[m] = seq[m] + 1 /\ attempt'[m] = 0 /\ 0 < MaxRetries
        BY <4>1
      <4>. QED
        BY <4>1, <4>2, <4>3
    <3>2. CASE JobDone(m)
      BY <3>2 DEF JobDone
    <3>3. CASE Contended(m)
      <4>1. /\ UNCHANGED <<todo, job, seq>> /\ attempt' = [attempt EXCEPT ![m] = attempt[m] + 1]
            /\ phase' = [phase EXCEPT ![m] = IF Exhausted(m) THEN "failed" ELSE "send"]
        BY <3>3 DEF Contended
      <4>2. /\ todo' = [todo EXCEPT ![m] = todo[m]] /\ seq' = [seq EXCEPT ![m] = seq[m]]
            /\ attempt[m] + 1 \in Nat /\ attempt'[m] = attempt[m] + 1
        BY <4>1
      <4>3. phase'[m] = "send" => attempt'[m] < MaxRetries
        BY <4>1, <4>2 DEF Exhausted
      <4>. QED
        BY <4>1, <4>2, <4>3
    <3>4. CASE Refused(m) \/ Transient(m)
      BY <3>4 DEF Refused, Transient
    <3>. QED
      BY <1>4, <3>1, <3>2, <3>3, <3>4
  <2>4. ClientVarsOK'
    BY <1>0, <2>1, <2>3 DEF ClientVarsOK
  <2>5. OneEach'
    BY <1>0, <2>1 DEF OneEach, ClientVarsOK
  <2>6. phase'[m] = "send" => job[m] = StateJob \/ seq'[m] + 1 \in DOMAIN Package[m][job[m]]
    <3>1. ASSUME phase'[m] = "send", job[m] # StateJob
          PROVE  seq'[m] + 1 \in DOMAIN Package[m][job[m]]
      <4>1. job[m] \in DOMAIN Package[m] /\ seq[m] + 1 \in DOMAIN Package[m][job[m]]
        BY <1>0, <2>1, <2>2, <3>1 DEF RequestOK, InFlight
      <4>. QED
        BY <2>2, <2>3, <3>1, <4>1, PackageFacts DEF MoreChunks
    <3>. QED
      BY <3>1
  <2>7. RequestOK(m)' /\ ServedOK(m)'
    BY <1>0, <2>1, <2>2, <2>3, <2>6 DEF RequestOK, ServedOK, InFlight, ClientVarsOK
  <2>8. \A n \in Machines : n # m => RequestOK(n)' /\ ServedOK(n)'
    <3>1. \A n \in Machines : n # m =>
            /\ phase'[n] = phase[n] /\ todo'[n] = todo[n] /\ job'[n] = job[n] /\ seq'[n] = seq[n]
            /\ attempt'[n] = attempt[n] /\ at'[n] = at[n] /\ docOf'[n] = docOf[n]
      BY <1>0, <2>1, <2>3 DEF ClientVarsOK
    <3>. QED
      BY <1>0, <2>1, <3>1, OthersStay
  <2>. QED
    BY <2>4, <2>5, <2>7, <2>8 DEF ClientInv
<1>5. ASSUME NEW m \in Machines, Interrupt(m)
      PROVE  ClientInv'
  <2>1. ClientVarsOK'
    BY <1>0, <1>5 DEF Interrupt, EnterPhase, ClientVarsOK
  <2>2. OneEach'
    BY <1>0, <1>5 DEF Interrupt, OneEach, ClientVarsOK
  <2>3. RequestOK(m)' /\ ServedOK(m)'
    BY <1>0, <1>5 DEF Interrupt, EnterPhase, ClientVarsOK, RequestOK, ServedOK, InFlight
  <2>4. \A n \in Machines : n # m => RequestOK(n)' /\ ServedOK(n)'
    BY <1>0, <1>5, OthersStay DEF Interrupt, EnterPhase, ClientVarsOK, Keeps, vars, requestVars
  <2>. QED
    BY <2>1, <2>2, <2>3, <2>4 DEF ClientInv
<1>6. ASSUME NEW m \in Machines, Close(m)
      PROVE  ClientInv'
  <2>1. ClientVarsOK'
    BY <1>0, <1>6 DEF Close, EnterPhase, ClientVarsOK
  <2>2. OneEach'
    BY <1>0, <1>6 DEF Close, OneEach
  <2>3. RequestOK(m)' /\ ServedOK(m)'
    BY <1>0, <1>6 DEF Close, CompleteLoad, EnterPhase, ClientVarsOK, RequestOK, ServedOK, InFlight,
       requestVars
  <2>4. \A n \in Machines : n # m => RequestOK(n)' /\ ServedOK(n)'
    BY <1>0, <1>6, OthersStay
       DEF Close, CompleteLoad, EnterPhase, ClientVarsOK, Keeps, requestVars
  <2>. QED
    BY <2>1, <2>2, <2>3, <2>4 DEF ClientInv
<1>7. ASSUME NEW t \in Threads, HandlerStep(t)
      PROVE  ClientInv'
  <2>1. UNCHANGED clientVars /\ faults' \in 0 .. MaxFaults
    BY <1>0, <1>7 DEF HandlerStep, ClientVarsOK
  <2>2. \A u \in Threads : Keeps(u)
    BY <1>7, HandlerKeeps DEF Keeps
  <2>3. \A n \in Machines : RequestOK(n)' /\ ServedOK(n)'
    BY <1>0, <2>1, <2>2, OthersStay DEF clientVars, ClientVarsOK
  <2>. QED
    BY <1>0, <2>1, <2>3 DEF ClientInv, ClientVarsOK, OneEach, clientVars
<1>8. ASSUME NEW t \in Threads, DropReply(t)
      PROVE  ClientInv'
  <2>1. UNCHANGED <<clientVars, faults>> /\ \A n \in Machines : at[n] # t
    BY <1>8 DEF DropReply
  <2>2. \A u \in Threads : u # t => Keeps(u)
    BY <1>8, LogTypes DEF DropReply, Finish, Goto, Keeps, TypeOK, ThreadTypeOK
  <2>3. \A n \in Machines : RequestOK(n)' /\ ServedOK(n)'
    BY <1>0, <2>1, <2>2, OthersStay DEF clientVars, ClientVarsOK
  <2>. QED
    BY <1>0, <2>1, <2>3 DEF ClientInv, ClientVarsOK, OneEach, clientVars
<1>9. CASE (Pause /\ UNCHANGED <<clientVars, faults>>) \/ UNCHANGED allVars
  <2>1. UNCHANGED <<clientVars, faults, pc, chunk, doc>>
    BY <1>9 DEF Pause, allVars, vars, requestVars
  <2>2. \A n \in Machines : RequestOK(n)' /\ ServedOK(n)'
    BY <1>0, <2>1, OthersStay DEF clientVars, Keeps
  <2>. QED
    BY <1>0, <2>1, <2>2 DEF ClientInv, ClientVarsOK, OneEach, clientVars
<1>. QED
  BY <1>1, <1>2, <1>3, <1>4, <1>5, <1>6, <1>7, <1>8, <1>9
  DEF PipelineNext, MachineStep, NextChunk, JobDone, Contended, Refused, Transient

\* The pipeline implements the service: whatever the clients do, the server's
\* threads see a run of the service, so every theorem about Spec holds here.
THEOREM PipelineIsServer ==
  ASSUME AnyVersion
  PROVE  PipelineSpec => Spec /\ []ClientInv
<1>1. PipelineInit => Init /\ TypeOK /\ ClientInv
  BY ClientInit, TypeInit DEF PipelineInit
<1>2. TypeOK /\ ClientInv /\ [PipelineNext]_allVars => TypeOK' /\ ClientInv' /\ [Next]_vars
  BY StepOfServer, ClientNext, TypeNext
<1>. QED
  BY <1>1, <1>2, PTL DEF PipelineSpec, Spec

\* A machine sends only jobs it has left, keeps within its retries and waits
\* exactly while a thread serves it: _request and run() of the load jobs.
THEOREM ClientTypesHold ==
  ASSUME AnyVersion
  PROVE  PipelineSpec => []ClientTypeOK
<1>1. ClientInv => ClientTypeOK
  BY DEF ClientInv, ClientVarsOK, RequestOK, ServedOK, InFlight, ClientTypeOK
<1>. QED
  BY <1>1, PipelineIsServer, PTL

-----------------------------------------------------------------------------
(* A completed load is whole                                               *)

\* Of what a machine sends, the chunks of the jobs that are done, and those of
\* the running job that were sent, are in S.
Done(m, S) ==
  \A j \in (DOMAIN Package[m]) \ todo[m] :
    \A n \in 1 .. Len(Package[m][j]) : Package[m][j][n] \in S
Sent(m, S) ==
  InFlight(m) /\ job[m] # StateJob => \A n \in 1 .. seq[m] : Package[m][job[m]][n] \in S
SentIn(S) == \A m \in Machines : Done(m, S) /\ Sent(m, S)

\* If a set of chunks only grows and has every chunk that is acknowledged, it
\* has all that are behind the machines.
LEMMA SentNext ==
  ASSUME TypeOK, ClientInv, [PipelineNext]_allVars, NEW P, NEW Q, P \subseteq Q, SentIn(P),
         \A t \in IngestThreads :
           reply[t] \in {"ok", "duplicate"} /\ chunk[t] \in Chunks => chunk[t] \in P
  PROVE  SentIn(Q)'
<1>. USE DEF Done, Sent
<1>0. ClientVarsOK /\ \A m \in Machines : RequestOK(m) /\ ServedOK(m) /\ Done(m, P) /\ Sent(m, P)
  BY DEF ClientInv, SentIn
<1>1. P \subseteq Q
  OBVIOUS
<1>2. ASSUME NEW m \in Machines, todo'[m] = todo[m]
      PROVE  Done(m, Q)'
  BY <1>0, <1>1, <1>2
<1>3. ASSUME NEW m \in Machines, phase'[m] = phase[m], job'[m] = job[m], seq'[m] = seq[m]
      PROVE  Sent(m, Q)'
  <2>. SUFFICES ASSUME InFlight(m), job[m] # StateJob, NEW n \in 1 .. seq[m]
                PROVE  Package[m][job[m]][n] \in Q
    BY <1>3 DEF InFlight
  <2>1. job[m] \in DOMAIN Package[m] /\ seq[m] + 1 \in DOMAIN Package[m][job[m]] /\ seq[m] \in Nat
    BY <1>0 DEF RequestOK, ClientVarsOK
  <2>2. Package[m][job[m]][n] \in Chunks
    BY <2>1, PackageFacts
  <2>. QED
    BY <1>0, <1>1, <1>3, <2>2
<1>4. ASSUME NEW m \in Machines, Receive(m), Accepted(m), job[m] # StateJob, job'[m] = job[m]
      PROVE  /\ job[m] \in DOMAIN Package[m] /\ seq[m] \in Nat
             /\ seq[m] + 1 \in 1 .. Len(Package[m][job[m]])
             /\ \A n \in 1 .. seq[m] + 1 : Package[m][job[m]][n] \in Q
  <2>1. /\ at[m] \in IngestThreads /\ chunk[at[m]] = Package[m][job[m]][seq[m] + 1]
        /\ job[m] \in DOMAIN Package[m] /\ seq[m] + 1 \in DOMAIN Package[m][job[m]] /\ seq[m] \in Nat
    BY <1>0, <1>4 DEF RequestOK, ServedOK, InFlight, ClientVarsOK, Receive
  <2>2. Package[m][job[m]][seq[m] + 1] \in P
    BY <1>4, <2>1, PackageFacts DEF Accepted
  <2>3. \A n \in 1 .. seq[m] : Package[m][job[m]][n] \in P
    BY <1>0, <1>4 DEF InFlight, Receive
  <2>4. \A n \in 1 .. seq[m] + 1 : Package[m][job[m]][n] \in Chunks
    BY <2>1, PackageFacts
  <2>5. \A n \in 1 .. seq[m] + 1 : n = seq[m] + 1 \/ n \in 1 .. seq[m]
    BY <2>1
  <2>. QED
    BY <1>1, <1>4, <2>1, <2>2, <2>3, <2>4, <2>5, PackageFacts
<1>5. ASSUME NEW m \in Machines, Start(m) \/ RunJob(m) \/ Send(m) \/ Interrupt(m) \/ Close(m)
      PROVE  SentIn(Q)'
  <2>1. todo' = todo /\ \A n \in Machines : n # m =>
          phase'[n] = phase[n] /\ job'[n] = job[n] /\ seq'[n] = seq[n]
    BY <1>0, <1>5 DEF Start, RunJob, Send, Interrupt, Close, EnterPhase, ClientVarsOK
  <2>2. Sent(m, Q)'
    <3>1. CASE RunJob(m)
      <4>1. seq'[m] = 0
        BY <1>0, <3>1 DEF RunJob, ClientVarsOK
      <4>. QED
        BY <4>1
    <3>2. CASE Start(m) \/ Interrupt(m) \/ Close(m)
      <4>1. ~InFlight(m)' \/ (phase'[m] = phase[m] /\ job'[m] = job[m] /\ seq'[m] = seq[m])
        BY <1>0, <3>2 DEF Start, Interrupt, Close, EnterPhase, ClientVarsOK, InFlight
      <4>. QED
        BY <1>3, <4>1
    <3>3. CASE Send(m)
      <4>1. InFlight(m) /\ job' = job /\ seq' = seq
        BY <3>3 DEF Send, InFlight
      <4>. SUFFICES ASSUME job[m] # StateJob, NEW n \in 1 .. seq[m]
                    PROVE  Package[m][job[m]][n] \in Q
        BY <4>1
      <4>2. job[m] \in DOMAIN Package[m] /\ seq[m] + 1 \in DOMAIN Package[m][job[m]] /\ seq[m] \in Nat
        BY <1>0, <4>1 DEF RequestOK, ClientVarsOK
      <4>3. Package[m][job[m]][n] \in Chunks
        BY <4>2, PackageFacts
      <4>. QED
        BY <1>0, <1>1, <4>1, <4>3
    <3>. QED
      BY <1>5, <3>1, <3>2, <3>3
  <2>3. \A n \in Machines : Done(n, Q)' /\ Sent(n, Q)'
    BY <1>2, <1>3, <2>1, <2>2
  <2>. QED
    BY <2>3 DEF SentIn
<1>6. ASSUME NEW m \in Machines, NextChunk(m)
      PROVE  SentIn(Q)'
  <2>1. /\ Receive(m) /\ Accepted(m) /\ job[m] # StateJob /\ todo' = todo /\ job' = job
        /\ seq' = [seq EXCEPT ![m] = seq[m] + 1] /\ phase' = [phase EXCEPT ![m] = "send"]
    BY <1>6 DEF NextChunk, MoreChunks, EnterPhase
  <2>2. seq'[m] = seq[m] + 1 /\ \A n \in Machines : n # m =>
          phase'[n] = phase[n] /\ job'[n] = job[n] /\ seq'[n] = seq[n]
    BY <1>0, <2>1 DEF ClientVarsOK
  <2>3. Sent(m, Q)'
    BY <1>4, <2>1, <2>2
  <2>4. \A n \in Machines : Done(n, Q)' /\ Sent(n, Q)'
    BY <1>2, <1>3, <2>1, <2>2, <2>3
  <2>. QED
    BY <2>4 DEF SentIn
<1>7. ASSUME NEW m \in Machines, JobDone(m)
      PROVE  SentIn(Q)'
  <2>1. /\ Receive(m) /\ Accepted(m) /\ ~MoreChunks(m) /\ job' = job /\ seq' = seq
        /\ todo' = [todo EXCEPT ![m] = todo[m] \ {job[m]}] /\ phase' = [phase EXCEPT ![m] = "ready"]
    BY <1>7 DEF JobDone, EnterPhase
  <2>2. /\ todo'[m] = todo[m] \ {job[m]} /\ phase'[m] = "ready"
        /\ \A n \in Machines : n # m =>
             phase'[n] = phase[n] /\ todo'[n] = todo[n] /\ job'[n] = job[n] /\ seq'[n] = seq[n]
    BY <1>0, <2>1 DEF ClientVarsOK
  <2>3. ASSUME NEW j \in DOMAIN Package[m], j \notin todo'[m], NEW n \in 1 .. Len(Package[m][j])
        PROVE  Package[m][j][n] \in Q
    <3>1. CASE j = job[m]
      <4>1. job[m] # StateJob
        BY <3>1, PackageFacts
      <4>2. Len(Package[m][j]) = seq[m] + 1
        BY <1>4, <2>1, <3>1, <4>1, PackageFacts DEF MoreChunks
      <4>. QED
        BY <1>4, <2>1, <3>1, <4>1, <4>2
    <3>2. CASE j # job[m]
      <4>1. j \notin todo[m]
        BY <2>2, <2>3, <3>2
      <4>. QED
        BY <1>0, <1>1, <4>1
    <3>. QED
      BY <3>1, <3>2
  <2>4. Done(m, Q)' /\ Sent(m, Q)'
    BY <2>2, <2>3 DEF InFlight
  <2>5. \A n \in Machines : Done(n, Q)' /\ Sent(n, Q)'
    BY <1>2, <1>3, <2>2, <2>4
  <2>. QED
    BY <2>5 DEF SentIn
<1>8. ASSUME NEW m \in Machines, Contended(m) \/ Refused(m) \/ Transient(m)
      PROVE  SentIn(Q)'
  <2>1. /\ InFlight(m) /\ UNCHANGED <<todo, job, seq>>
        /\ \A n \in Machines : n # m => phase'[n] = phase[n]
    BY <1>0, <1>8 DEF Contended, Refused, Transient, EnterPhase, ClientVarsOK, Receive, InFlight
  <2>2. Sent(m, Q)'
    <3>. SUFFICES ASSUME job[m] # StateJob, NEW n \in 1 .. seq[m]
                  PROVE  Package[m][job[m]][n] \in Q
      BY <2>1
    <3>1. job[m] \in DOMAIN Package[m] /\ seq[m] + 1 \in DOMAIN Package[m][job[m]] /\ seq[m] \in Nat
      BY <1>0, <2>1 DEF RequestOK, ClientVarsOK
    <3>2. Package[m][job[m]][n] \in Chunks
      BY <3>1, PackageFacts
    <3>. QED
      BY <1>0, <1>1, <2>1, <3>2
  <2>3. \A n \in Machines : Done(n, Q)' /\ Sent(n, Q)'
    BY <1>2, <1>3, <2>1, <2>2
  <2>. QED
    BY <2>3 DEF SentIn
<1>9. CASE UNCHANGED clientVars
  <2>1. \A n \in Machines : Done(n, Q)' /\ Sent(n, Q)'
    BY <1>2, <1>3, <1>9 DEF clientVars
  <2>. QED
    BY <2>1 DEF SentIn
<1>. QED
  BY <1>5, <1>6, <1>7, <1>8, <1>9
  DEF PipelineNext, MachineStep, HandlerStep, DropReply, allVars

\* What is behind the machines is in the log.
WholeInv == SentIn({c \in Chunks : Landed(c)})

\* Each step keeps the chunks behind a machine in the log.
LEMMA WholeNext ==
  ASSUME TypeOK, TypeOK', ClientInv, AckedChunksLanded, WholeInv, [Next]_vars, [PipelineNext]_allVars
  PROVE  WholeInv'
<1>1. PICK P : P = {c \in Chunks : Landed(c)}
  OBVIOUS
<1>2. PICK Q : Q = {c \in Chunks : Landed(c)'}
  OBVIOUS
<1>3. P \subseteq Q
  BY <1>1, <1>2, LogOnlyGrows, StaysLanded
<1>4. SentIn(P)
  BY <1>1 DEF WholeInv
<1>5. \A t \in IngestThreads :
        reply[t] \in {"ok", "duplicate"} /\ chunk[t] \in Chunks => chunk[t] \in P
  BY <1>1 DEF AckedChunksLanded
<1>6. SentIn(Q)'
  BY <1>3, <1>4, <1>5, SentNext
<1>. QED
  BY <1>2, <1>6 DEF WholeInv

\* A load that is reported complete is in the log row for row, with any number
\* of machines, retries, restarts and failures: the whole way from run() over
\* the ledger and the dedup to complete_load.
THEOREM CompletedLoadsAreWhole ==
  ASSUME AnyVersion, StableChunks, IdNamesRow
  PROVE  PipelineSpec => []CompletedLoadIsWhole
<1>1. PipelineInit => WholeInv
  BY DEF PipelineInit, WholeInv, SentIn, Done, Sent, InFlight
<1>2. /\ TypeOK /\ TypeOK' /\ ClientInv /\ AckedChunksLanded /\ WholeInv
      /\ [Next]_vars /\ [PipelineNext]_allVars
      => WholeInv'
  BY WholeNext
<1>3. ClientInv /\ WholeInv => CompletedLoadIsWhole
  <2>. SUFFICES ASSUME ClientInv, WholeInv, NEW m \in Machines, phase[m] = "done",
                       NEW c \in ChunksOf(m)
                PROVE  Landed(c)
    BY DEF CompletedLoadIsWhole
  <2>1. todo[m] = {}
    BY DEF ClientInv, RequestOK
  <2>2. PICK j \in DOMAIN Package[m] : c \in ToSet(Package[m][j])
    BY DEF ChunksOf
  <2>3. PICK n \in 1 .. Len(Package[m][j]) : c = Package[m][j][n]
    BY <2>2, PackageFacts DEF ToSet
  <2>. QED
    BY <2>1, <2>3 DEF WholeInv, SentIn, Done
<1>. QED
  BY <1>1, <1>2, <1>3, PipelineIsServer, TypeCorrect, AckedMeansLanded, PTL DEF PipelineSpec, Spec

-----------------------------------------------------------------------------
(* A completed load's state document is kept                               *)

Settled == {"ok", "duplicate", "stale_state_version"}

\* A state thread that says a document is stored, or stale, is right for good.
AnsweredInv == \A t \in StateThreads : reply[t] \in Settled => doc[t] <= dltState

\* A machine whose state job is done has its document, or a newer one, stored.
StateDone ==
  \A m \in Machines : StateJob \notin todo[m] => phase[m] # "start" /\ docOf[m] <= dltState

\* Each step keeps what a state thread answers true, and no version goes back.
LEMMA AnsweredNext ==
  ASSUME TypeOK, TypeOK', EntryLock, StateInv, AnsweredInv, [Next]_vars
  PROVE  AnsweredInv' /\ dltState' >= dltState
<1>. USE ThreadsAssumption DEF Threads, Goto, Answer, Settled
<1>0. /\ pc \in [Threads -> Labels] /\ dltState \in Nat /\ dltState' \in Nat
      /\ reply \in [Threads -> Replies] /\ doc \in [StateThreads -> Docs \cup {0}]
      /\ \A t \in StateThreads : pc[t] \notin {"release", "replied"} => reply[t] = "none"
      /\ \A t \in StateThreads : doc[t] \in Nat
  BY DocsAssumption DEF TypeOK, StoreTypeOK, ThreadTypeOK, LocalsOK
<1>1. dltState' >= dltState
  BY <1>0, StateInvNext
<1>2. ASSUME \A t \in StateThreads :
               reply'[t] \in Settled => reply[t] = reply'[t] /\ doc'[t] = doc[t]
      PROVE  AnsweredInv'
  BY <1>0, <1>1, <1>2 DEF AnsweredInv
<1>3. ASSUME NEW t \in StateThreads, Compare(t)
      PROVE  AnsweredInv'
  <2>1. /\ doc' = doc /\ dltState' = dltState /\ pc[t] = "compare"
        /\ \A u \in StateThreads : u # t => reply'[u] = reply[u]
        /\ (reply'[t] = "stale_state_version" /\ doc[t] <= dltState) \/ reply' = reply
    BY <1>0, <1>3 DEF Compare, IsStale, requestVars
  <2>. QED
    BY <2>1 DEF AnsweredInv
<1>4. ASSUME NEW t \in StateThreads, Store(t)
      PROVE  AnsweredInv'
  <2>1. /\ doc' = doc /\ dltState' = doc[t]
        /\ \A u \in StateThreads : u # t => reply'[u] = reply[u]
    BY <1>0, <1>4 DEF Store, requestVars
  <2>. QED
    BY <1>0, <1>1, <2>1 DEF AnsweredInv
<1>5. ASSUME NEW t \in StateThreads, NEW v \in Docs, ArriveState(t, v)
      PROVE  AnsweredInv'
  <2>1. /\ reply' = reply /\ reply[t] = "none"
        /\ \A u \in StateThreads : u # t => doc'[u] = doc[u]
    BY <1>0, <1>5 DEF ArriveState
  <2>. QED
    BY <1>2, <2>1
<1>6. ASSUME NEW t \in Threads, LockStep(t)
      PROVE  AnsweredInv'
  <2>1. CASE Claim(t) \/ Release(t)
    BY <1>2, <2>1 DEF Claim, Release, requestVars
  <2>2. CASE ClaimRefused(t)
    <3>1. doc' = doc /\ reply'[t] \notin Settled /\ \A u \in StateThreads : u # t => reply'[u] = reply[u]
      BY <1>0, <2>2 DEF ClaimRefused, requestVars
    <3>. QED
      BY <1>2, <3>1
  <2>3. CASE Finish(t)
    <3>1. /\ reply'[t] = "none"
          /\ \A u \in StateThreads : u # t => reply'[u] = reply[u] /\ doc'[u] = doc[u]
      BY <1>0, <2>3 DEF Finish
    <3>. QED
      BY <1>2, <3>1
  <2>. QED
    BY <1>6, <2>1, <2>2, <2>3 DEF LockStep
<1>7. ASSUME NEW t \in IngestThreads, IngestStep(t)
      PROVE  AnsweredInv'
  <2>1. doc' = doc /\ \A u \in StateThreads : reply'[u] = reply[u]
    BY <1>0, <1>7 DEF IngestStep, LedgerCheck, RefuseClosed, Admit, Abort, Commit, Mark, Record,
       PassOrCrash, requestVars
  <2>. QED
    BY <1>2, <2>1
<1>8. ASSUME UNCHANGED <<reply, doc>>
      PROVE  AnsweredInv'
  <2>1. reply' = reply /\ doc' = doc
    BY <1>8
  <2>2. ASSUME NEW t \in StateThreads, reply'[t] \in Settled
        PROVE  reply[t] = reply'[t] /\ doc'[t] = doc[t]
    BY <2>1
  <2>. QED
    BY <1>0, <1>1, <2>1, <2>2 DEF AnsweredInv
<1>9. ASSUME NEW t \in IngestThreads, NEW c \in Chunks, ArriveIngest(t, c)
      PROVE  UNCHANGED <<reply, doc>>
  BY <1>9 DEF ArriveIngest
<1>10. ASSUME Pause \/ UNCHANGED vars \/ \E l \in Loads : CompleteLoad(l)
       PROVE  UNCHANGED <<reply, doc>>
  BY <1>10 DEF Pause, vars, CompleteLoad, requestVars
<1>. QED
  BY <1>1, <1>3, <1>4, <1>5, <1>6, <1>7, <1>8, <1>9, <1>10 DEF Next, StateStep

\* Each step keeps the state behind a machine stored, or a newer one.
LEMMA StateDoneNext ==
  ASSUME TypeOK, TypeOK', ClientInv, AnsweredInv, StateDone, dltState' >= dltState,
         [PipelineNext]_allVars
  PROVE  StateDone'
<1>0. ClientVarsOK /\ dltState \in Nat /\ dltState' \in Nat /\ \A m \in Machines : RequestOK(m) /\ ServedOK(m)
  BY DEF ClientInv, TypeOK, StoreTypeOK
<1>. DEFINE Kept(m) == StateJob \notin todo[m] => phase[m] # "start" /\ docOf[m] <= dltState
<1>1. ASSUME NEW m \in Machines, todo'[m] = todo[m], docOf'[m] = docOf[m],
             phase'[m] = "start" => phase[m] = "start"
      PROVE  Kept(m)'
  BY <1>0, <1>1 DEF StateDone, ClientVarsOK
<1>2. ASSUME NEW m \in Machines, MachineStep(m) \/ Interrupt(m)
      PROVE  StateDone'
  <2>1. /\ \A n \in Machines : n # m => phase'[n] = phase[n] /\ todo'[n] = todo[n] /\ docOf'[n] = docOf[n]
        /\ phase'[m] # "start"
    BY <1>0, <1>2 DEF MachineStep, Interrupt, Start, RunJob, Send, NextChunk, JobDone, Contended,
       Refused, Transient, Close, Receive, EnterPhase, ClientVarsOK
  <2>2. CASE Start(m)
    <3>1. StateJob \in todo[m] /\ todo' = todo
      BY <2>2 DEF Start, StateDone
    <3>. QED
      BY <1>1, <2>1, <3>1 DEF StateDone
  <2>3. CASE JobDone(m)
    <3>1. /\ Receive(m) /\ Accepted(m) /\ docOf' = docOf
          /\ todo'[m] = todo[m] \ {job[m]}
      BY <1>0, <2>3 DEF JobDone, Receive, ClientVarsOK
    <3>2. CASE job[m] = StateJob
      <4>1. at[m] \in StateThreads /\ doc[at[m]] = docOf[m] /\ reply[at[m]] \in Settled
        BY <1>0, <3>1, <3>2 DEF Receive, ServedOK, Accepted, Settled
      <4>2. docOf[m] <= dltState
        BY <4>1 DEF AnsweredInv
      <4>3. Kept(m)'
        BY <1>0, <2>1, <3>1, <4>2 DEF ClientVarsOK
      <4>. QED
        BY <1>1, <2>1, <4>3 DEF StateDone
    <3>3. CASE job[m] # StateJob
      <4>1. StateJob \notin todo'[m] => StateJob \notin todo[m]
        BY <3>1, <3>3
      <4>2. Kept(m)'
        BY <1>0, <2>1, <3>1, <4>1 DEF ClientVarsOK, StateDone
      <4>. QED
        BY <1>1, <2>1, <4>2 DEF StateDone
    <3>. QED
      BY <3>2, <3>3
  <2>4. CASE ~Start(m) /\ ~JobDone(m)
    <3>1. todo' = todo /\ docOf' = docOf
      BY <1>2, <2>4 DEF MachineStep, Interrupt, RunJob, Send, NextChunk, Contended, Refused,
         Transient, Close, Receive
    <3>. QED
      BY <1>1, <2>1, <3>1 DEF StateDone
  <2>. QED
    BY <2>2, <2>3, <2>4
<1>3. CASE UNCHANGED clientVars
  BY <1>1, <1>3 DEF StateDone, clientVars
<1>. QED
  BY <1>2, <1>3 DEF PipelineNext, HandlerStep, DropReply, allVars

\* A completed load leaves its state document, or a newer one, stored for good:
\* put_dlt_state's comparison under the lock and the transport's tolerance of
\* a stale version, with any number of machines and abandoned requests.
THEOREM CompletedStatesAreKept ==
  ASSUME AnyVersion
  PROVE  PipelineSpec => []CompletedStateKept
<1>1. PipelineInit => StateInv /\ AnsweredInv /\ StateDone
  BY ThreadsAssumption DEF PipelineInit, Init, StateInv, AnsweredInv, StateDone, Settled, Threads
<1>2. TypeOK /\ TypeOK' /\ EntryLock /\ StateInv /\ AnsweredInv /\ [Next]_vars
      => StateInv' /\ AnsweredInv' /\ dltState' >= dltState
  BY StateInvNext, AnsweredNext
<1>3. /\ TypeOK /\ TypeOK' /\ ClientInv /\ AnsweredInv /\ StateDone /\ dltState' >= dltState
      /\ [PipelineNext]_allVars
      => StateDone'
  BY StateDoneNext
<1>4. TypeOK /\ ClientInv /\ StateDone => CompletedStateKept
  BY DEF ClientInv, ClientVarsOK, RequestOK, StateDone, CompletedStateKept, TypeOK, StoreTypeOK
<1>. QED
  BY <1>1, <1>2, <1>3, <1>4, PipelineIsServer, TypeCorrect, EntryLockHeld, PTL DEF PipelineSpec, Spec

-----------------------------------------------------------------------------
(* The order of chunks, and completed loads                                *)

\* Every row has an id, as dlt gives one to each.
AllIds == \A r \in Rows : DltId[r] # None

\* Load ids are not shared.
OneLoadEach == \A m, n \in Machines : LoadOf[m] = LoadOf[n] => m = n

\* The dedup would drop row i of c, and all of c.
MarkedRow(c, i) == DltId[c.rows[i]] \in seen[c.load]
Marked(c) == \A i \in DOMAIN c.rows : MarkedRow(c, i)

-----------------------------------------------------------------------------
(* The service's marks                                                     *)

\* What a batch leaves out is marked, and when its ids are marked all of its
\* chunk is.
BatchesMarked ==
  \A t \in IngestThreads :
    /\ pc[t] \in {"commit", "mark"} =>
         \A i \in (DOMAIN chunk[t].rows) \ batch[t].kept : MarkedRow(chunk[t], i)
    /\ pc[t] = "record" => Marked(chunk[t])

LedgerMarked == \A c \in Chunks : LKey(c) \in ledger => Marked(c)

AckedMarked ==
  \A t \in IngestThreads : reply[t] \in {"ok", "duplicate"} => Marked(chunk[t])

MarkInv == BatchIdsNew /\ BatchesMarked /\ LedgerMarked /\ AckedMarked

\* Marks are never taken back.
LEMMA MarksStay ==
  ASSUME TypeOK, [Next]_vars, NEW c \in Chunks
  PROVE  /\ \A i : MarkedRow(c, i) => MarkedRow(c, i)'
         /\ Marked(c) => Marked(c)'
<1>1. c.load \in Loads
  BY ChunksAssumption DEF ChunkType
<1>2. seen \in [Loads -> SUBSET Ids]
  BY LogTypes
<1>3. seen[c.load] \subseteq seen'[c.load]
  <2>1. ASSUME NEW t \in IngestThreads, Mark(t)
        PROVE  seen[c.load] \subseteq seen'[c.load]
    BY <1>1, <1>2, <2>1 DEF Mark
  <2>2. ASSUME ~ \E t \in IngestThreads : Mark(t)
        PROVE  seen' = seen
    BY <2>2 DEF Next, IngestStep, StateStep, LockStep, ArriveIngest, ArriveState, LedgerCheck,
       RefuseClosed, Admit, Abort, Commit, Record, Compare, Store, ClaimRefused, Claim, Release,
       Finish, CompleteLoad, Pause, vars, ingestVars, requestVars
  <2>. QED
    BY <2>1, <2>2
<1>. QED
  BY <1>3 DEF MarkedRow, Marked

\* Ledger and acknowledgements never run ahead of the marks: Mark comes before
\* Record, and what a batch leaves out has been marked before.
LEMMA MarkInvNext ==
  ASSUME AllIds, StableChunks, TypeOK, TypeOK', EntryLock, MarkInv, [Next]_vars
  PROVE  MarkInv'
<1>. BatchIdsNew /\ BatchesMarked /\ LedgerMarked /\ AckedMarked /\ LocalsOK /\ LocalsOK'
  BY DEF MarkInv, TypeOK
<1>1. \A c \in Chunks : (\A i : MarkedRow(c, i) => MarkedRow(c, i)') /\ (Marked(c) => Marked(c)')
  BY MarksStay
<1>2. ASSUME ledger' = ledger
      PROVE  LedgerMarked'
  BY <1>1, <1>2 DEF LedgerMarked
<1>3. ASSUME \A u \in IngestThreads : reply'[u] \in {"ok", "duplicate"} =>
               /\ chunk'[u] = chunk[u]
               /\ reply[u] \in {"ok", "duplicate"} \/ Marked(chunk[u])
      PROVE  AckedMarked'
  <2>. SUFFICES ASSUME NEW u \in IngestThreads, reply'[u] \in {"ok", "duplicate"}
                PROVE  Marked(chunk[u])'
    BY DEF AckedMarked
  <2>1. chunk'[u] = chunk[u] /\ Marked(chunk[u]) /\ chunk'[u] \in Chunks
    BY <1>3 DEF AckedMarked, LocalsOK, Threads
  <2>2. PICK c \in Chunks : c = chunk[u]
    BY <2>1
  <2>3. Marked(c)'
    BY <1>1, <2>1, <2>2
  <2>. QED
    BY <2>1, <2>2, <2>3 DEF Marked, MarkedRow
<1>4. CASE Quiet
  <2>1. \A u \in IngestThreads : HasBatch(u)' =>
          pc'[u] = pc[u] /\ batch'[u] = batch[u] /\ chunk'[u] = chunk[u] /\ chunk[u] \in Chunks
    BY <1>4 DEF Quiet, BatchesStay, LocalsOK, HasBatch
  <2>2. BatchIdsNew'
    BY <1>4, <2>1 DEF Quiet, BatchIdsNew, HasBatch
  <2>3. BatchesMarked'
    <3>. SUFFICES ASSUME NEW u \in IngestThreads, HasBatch(u)'
                  PROVE  /\ pc'[u] \in {"commit", "mark"} =>
                              \A i \in (DOMAIN chunk'[u].rows) \ batch'[u].kept : MarkedRow(chunk[u], i)'
                         /\ pc'[u] = "record" => Marked(chunk[u])'
      BY DEF BatchesMarked, HasBatch
    <3>1. PICK c \in Chunks : c = chunk[u] /\ c = chunk'[u]
      BY <2>1
    <3>2. \A i \in (DOMAIN c.rows) \ batch'[u].kept : pc'[u] \in {"commit", "mark"} => MarkedRow(c, i)'
      BY <1>1, <2>1, <3>1 DEF BatchesMarked
    <3>3. pc'[u] = "record" => Marked(c)'
      BY <1>1, <2>1, <3>1 DEF BatchesMarked
    <3>. QED
      BY <3>1, <3>2, <3>3 DEF Marked, MarkedRow
  <2>4. AckedMarked'
    <3>1. ASSUME NEW u \in IngestThreads, reply'[u] \in {"ok", "duplicate"}
          PROVE  /\ chunk'[u] = chunk[u]
                 /\ reply[u] \in {"ok", "duplicate"} \/ Marked(chunk[u])
      <4>1. /\ chunk'[u] = chunk[u] /\ chunk'[u] \in Chunks
            /\ reply[u] \in {"ok", "duplicate"} \/ LKey(chunk[u]) \in ledger
        BY <1>4, <3>1 DEF Quiet, LocalsOK, Threads
      <4>. QED
        BY <4>1 DEF LedgerMarked
    <3>. QED
      BY <1>3, <3>1
  <2>. QED
    BY <1>2, <1>4, <2>2, <2>3, <2>4 DEF MarkInv, Quiet
<1>5. ASSUME NEW t \in IngestThreads, Admit(t)
      PROVE  MarkInv'
  <2>1. UNCHANGED <<log, seen, ledger, reply, chunk>>
    BY <1>5 DEF Admit, requestVars
  <2>2. /\ chunk[t] \in Chunks /\ pc'[t] = "commit"
        /\ batch'[t].chunk = chunk[t] /\ batch'[t].kept = KeptRows(chunk[t])
        /\ \A u \in IngestThreads : u # t => batch'[u] = batch[u] /\ pc'[u] = pc[u]
    BY <1>5, AdmitBuilds
  <2>3. BatchIdsNew'
    <3>1. SegIds(batch'[t]) \cap seen[chunk[t].load] = {}
      BY <2>2 DEF SegIds, KeptRows
    <3>. QED
      BY <2>1, <2>2, <3>1 DEF BatchIdsNew
  <2>4. BatchesMarked'
    <3>1. \A i \in (DOMAIN chunk[t].rows) \ batch'[t].kept : MarkedRow(chunk[t], i)
      BY <2>2 DEF KeptRows, MarkedRow
    <3>. QED
      BY <2>1, <2>2, <3>1 DEF BatchesMarked, Marked, MarkedRow
  <2>5. AckedMarked'
    BY <1>3, <2>1 DEF AckedMarked
  <2>. QED
    BY <1>2, <2>1, <2>3, <2>4, <2>5 DEF MarkInv
<1>6. ASSUME NEW t \in IngestThreads, Commit(t)
      PROVE  MarkInv'
  <2>1. UNCHANGED <<seen, ledger, chunk, batch>> /\ HasBatch(t) /\ pc[t] = "commit"
    BY <1>6 DEF Commit, requestVars, HasBatch
  <2>2. pc'[t] \in {"mark", "release"} /\ \A u \in IngestThreads : u # t => ~HasBatch(u)'
    BY <1>6, <2>1, OnlyHolder, LogTypes DEF Commit, PassOrCrash, Goto, HasBatch, Threads
  <2>3. BatchIdsNew'
    BY <2>2 DEF BatchIdsNew, HasBatch
  <2>4. BatchesMarked'
    BY <2>1, <2>2 DEF BatchesMarked, HasBatch, MarkedRow
  <2>5. \A u \in IngestThreads : reply'[u] \in {"ok", "duplicate"} => reply'[u] = reply[u]
    BY <1>6 DEF Commit, PassOrCrash, Answer, TypeOK, ThreadTypeOK, Threads
  <2>6. AckedMarked'
    BY <1>3, <2>1, <2>5 DEF AckedMarked
  <2>. QED
    BY <1>2, <2>1, <2>3, <2>4, <2>6 DEF MarkInv
<1>7. ASSUME NEW t \in IngestThreads, Mark(t)
      PROVE  MarkInv'
  <2>. DEFINE b == batch[t]
              c == chunk[t]
  <2>1. /\ UNCHANGED <<ledger, chunk, batch>> /\ HasBatch(t) /\ pc[t] = "mark"
        /\ b \in BatchType /\ b.chunk = c /\ c \in Chunks
    BY <1>7, LogTypes DEF Mark, requestVars, HasBatch, LocalsOK
  <2>2. pc'[t] \in {"record", "release"} /\ \A u \in IngestThreads : u # t => ~HasBatch(u)'
    BY <1>7, <2>1, OnlyHolder, LogTypes DEF Mark, PassOrCrash, Goto, HasBatch, Threads
  <2>3. BatchIdsNew'
    BY <2>2 DEF BatchIdsNew, HasBatch
  <2>4. Marked(c)'
    <3>. SUFFICES ASSUME NEW i \in DOMAIN c.rows
                  PROVE  MarkedRow(c, i)'
      BY <2>1 DEF Marked
    <3>1. CASE i \in b.kept
      <4>1. seen' = [seen EXCEPT ![c.load] = @ \cup SegIds(b)] /\ c.load \in Loads
        BY <1>7, <2>1, BatchFields DEF Mark
      <4>2. DltId[c.rows[i]] # None
        BY <2>1, BatchFields DEF AllIds
      <4>3. DltId[c.rows[i]] \in SegIds(b)
        BY <2>1, <3>1, <4>2 DEF SegIds
      <4>. QED
        BY <2>1, <4>1, <4>3, LogTypes DEF MarkedRow
    <3>2. CASE i \notin b.kept
      <4>1. MarkedRow(c, i)
        BY <2>1, <3>2 DEF BatchesMarked
      <4>. QED
        BY <1>1, <2>1, <4>1
    <3>. QED
      BY <3>1, <3>2
  <2>5. BatchesMarked'
    BY <2>1, <2>2, <2>4 DEF BatchesMarked, HasBatch, Marked, MarkedRow
  <2>6. \A u \in IngestThreads : reply'[u] \in {"ok", "duplicate"} => reply'[u] = reply[u]
    BY <1>7 DEF Mark, PassOrCrash, Answer, TypeOK, ThreadTypeOK, Threads
  <2>7. AckedMarked'
    BY <1>3, <2>1, <2>6 DEF AckedMarked
  <2>. QED
    BY <1>2, <2>1, <2>3, <2>5, <2>7 DEF MarkInv
<1>8. ASSUME NEW t \in IngestThreads, Record(t)
      PROVE  MarkInv'
  <2>. DEFINE c == chunk[t]
  <2>1. /\ UNCHANGED <<seen, chunk, batch>> /\ HasBatch(t) /\ pc[t] = "record"
        /\ ledger' = ledger \cup {LKey(c)}
    BY <1>8, LogTypes DEF Record, requestVars, HasBatch
  <2>2. c \in Chunks /\ Marked(c) /\ Marked(c)'
    BY <1>1, <2>1 DEF BatchesMarked, LocalsOK
  <2>3. \A u \in IngestThreads : ~HasBatch(u)'
    BY <1>8, <2>1, OnlyHolder, LogTypes DEF Record, Goto, HasBatch, Threads
  <2>4. BatchIdsNew' /\ BatchesMarked'
    BY <2>3 DEF BatchIdsNew, BatchesMarked, HasBatch
  <2>5. LedgerMarked'
    <3>1. \A d \in Chunks : LKey(d) = LKey(c) => d = c
      BY <2>2 DEF StableChunks
    <3>2. \A d \in Chunks : LKey(d) \in ledger' => Marked(d)
      BY <2>1, <2>2, <3>1 DEF LedgerMarked
    <3>. QED
      BY <1>1, <3>2 DEF LedgerMarked
  <2>6. \A u \in IngestThreads : u # t => reply'[u] = reply[u]
    BY <1>8 DEF Record, Answer, TypeOK, ThreadTypeOK, Threads
  <2>7. AckedMarked'
    BY <1>3, <2>1, <2>2, <2>6
  <2>. QED
    BY <2>4, <2>5, <2>7 DEF MarkInv
<1>. QED
  BY <1>4, <1>5, <1>6, <1>7, <1>8, WorkOrQuiet

-----------------------------------------------------------------------------
(* The machines and the marks                                              *)

\* All chunks of d's job before d are marked.
Earlier(d) ==
  \A c \in Chunks : c.load = d.load /\ c.job = d.job /\ c.seq < d.seq => Marked(c)

FromMachine(c) == \E m \in Machines : c \in ChunksOf(m)

\* A chunk is only sent, and only lands, when the ones before it are marked.
RequestsInOrder ==
  \A t \in IngestThreads : pc[t] # "idle" => Earlier(chunk[t]) /\ FromMachine(chunk[t])

LogInOrder == \A tb \in Tables : \A i \in 1 .. Len(log[tb]) : Earlier(log[tb][i].chunk)

SentMarked == SentIn({c \in Chunks : Marked(c)})

LoadOrderInv == SentMarked /\ RequestsInOrder /\ LogInOrder /\ JobLandsInOrder

\* A chunk whose earlier ones are marked keeps them marked.
LEMMA EarlierStays ==
  ASSUME TypeOK, [Next]_vars, NEW d, Earlier(d)
  PROVE  Earlier(d)'
<1>1. \A c \in Chunks : Marked(c) => Marked(c)'
  BY MarksStay
<1>. QED
  BY <1>1 DEF Earlier

\* What a machine sends comes after chunks that are marked.
LEMMA SendsInOrder ==
  ASSUME StableChunks, ClientInv, SentMarked, NEW m \in Machines, InFlight(m), job[m] # StateJob
  PROVE  LET d == Package[m][job[m]][seq[m] + 1] IN Earlier(d) /\ FromMachine(d)
<1>. DEFINE j == job[m]
            d == Package[m][j][seq[m] + 1]
<1>1. j \in DOMAIN Package[m] /\ seq[m] \in Nat /\ seq[m] + 1 \in DOMAIN Package[m][j]
  BY DEF ClientInv, ClientVarsOK, RequestOK
<1>2. \A n \in DOMAIN Package[m][j] :
        LET c == Package[m][j][n] IN
        c \in Chunks /\ c.load = LoadOf[m] /\ c.job = j /\ c.seq = n - 1
  BY <1>1, PackageAssumption
<1>3. d.load = LoadOf[m] /\ d.job = j /\ d.seq = seq[m]
  BY <1>1, <1>2
<1>4. Earlier(d)
  <2>. SUFFICES ASSUME NEW c \in Chunks, c.load = d.load, c.job = d.job, c.seq < d.seq
                PROVE  Marked(c)
    BY DEF Earlier
  <2>1. c.seq \in Nat
    BY ChunksAssumption DEF ChunkType
  <2>2. c.seq + 1 \in 1 .. seq[m] /\ c.seq + 1 \in DOMAIN Package[m][j]
    BY <1>1, <1>3, <2>1, PackageFacts
  <2>3. Package[m][j][c.seq + 1] \in Chunks /\ LKey(Package[m][j][c.seq + 1]) = LKey(c)
    BY <1>2, <1>3, <2>1, <2>2 DEF LKey
  <2>4. c = Package[m][j][c.seq + 1]
    BY <2>3 DEF StableChunks
  <2>5. Package[m][j][c.seq + 1] \in {e \in Chunks : Marked(e)}
    BY <2>2 DEF SentMarked, SentIn, Sent
  <2>. QED
    BY <2>4, <2>5
<1>5. FromMachine(d)
  BY <1>1 DEF FromMachine, ChunksOf, ToSet
<1>. QED
  BY <1>4, <1>5

\* A handler has the request it had, or one a machine has just sent.
LEMMA RequestsStay ==
  ASSUME TypeOK, ClientInv, [PipelineNext]_allVars, NEW t \in IngestThreads, pc'[t] # "idle"
  PROVE  \/ pc[t] # "idle" /\ chunk'[t] = chunk[t]
         \/ \E m \in Machines : /\ InFlight(m) /\ job[m] # StateJob
                                /\ chunk'[t] = Package[m][job[m]][seq[m] + 1]
<1>. USE ThreadsAssumption DEF Goto, Threads
<1>0. pc \in [Threads -> Labels] /\ chunk \in [IngestThreads -> Chunks \cup {None}]
  BY DEF TypeOK, ThreadTypeOK
<1>1. ASSUME NEW m \in Machines, Send(m)
      PROVE  \/ pc[t] # "idle" /\ chunk'[t] = chunk[t]
             \/ /\ InFlight(m) /\ job[m] # StateJob
                /\ chunk'[t] = Package[m][job[m]][seq[m] + 1]
  BY <1>0, <1>1 DEF Send, ArriveState, ArriveIngest, InFlight
<1>2. ASSUME NEW u \in Threads, Finish(u)
      PROVE  pc[t] # "idle" /\ chunk'[t] = chunk[t]
  BY <1>0, <1>2 DEF Finish
<1>3. ASSUME NEW m \in Machines, Receive(m)
      PROVE  pc[t] # "idle" /\ chunk'[t] = chunk[t]
  BY <1>2, <1>3, ReceiveKeeps DEF Receive
<1>4. ASSUME NEW u \in Threads, HandlerStep(u)
      PROVE  pc[t] # "idle" /\ chunk'[t] = chunk[t]
  <2>1. chunk' = chunk
    BY <1>4, HandlerKeeps
  <2>2. pc[u] # "idle" /\ \E label \in Labels : pc' = [pc EXCEPT ![u] = label]
    BY <1>4 DEF HandlerStep, IngestStep, StateStep, LedgerCheck, RefuseClosed, Admit, Abort, Commit,
       Mark, Record, PassOrCrash, Compare, Store, ClaimRefused, Claim, Release, Labels
  <2>. QED
    BY <1>0, <2>1, <2>2
<1>5. ASSUME UNCHANGED <<pc, chunk>>
      PROVE  pc[t] # "idle" /\ chunk'[t] = chunk[t]
  BY <1>5
<1>6. ASSUME NEW m \in Machines, Start(m) \/ RunJob(m) \/ Interrupt(m) \/ Close(m)
      PROVE  UNCHANGED <<pc, chunk>>
  BY <1>6 DEF Start, RunJob, Interrupt, Close, CompleteLoad, vars, requestVars
<1>7. ASSUME Pause \/ UNCHANGED allVars
      PROVE  UNCHANGED <<pc, chunk>>
  BY <1>7 DEF Pause, allVars, vars, requestVars
<1>. QED
  BY <1>1, <1>2, <1>3, <1>4, <1>5, <1>6, <1>7
  DEF PipelineNext, MachineStep, NextChunk, JobDone, Contended, Refused, Transient, DropReply

\* A batch of a chunk that is marked has no rows left.
LEMMA MarkedWritesNothing ==
  ASSUME AllIds, TypeOK, BatchIdsNew, NEW t \in IngestThreads, pc[t] = "commit", Marked(chunk[t])
  PROVE  batch[t].kept = {}
<1>1. batch[t] \in BatchType /\ batch[t].chunk = chunk[t]
  BY LogTypes DEF HasBatch
<1>2. SegIds(batch[t]) \cap seen[chunk[t].load] = {}
  BY <1>1 DEF BatchIdsNew
<1>3. ASSUME NEW i \in batch[t].kept
      PROVE  FALSE
  <2>1. i \in DOMAIN chunk[t].rows /\ chunk[t].rows \in Seq(Rows)
    BY <1>1, BatchFields
  <2>2. DltId[chunk[t].rows[i]] \in SegIds(batch[t])
    BY <1>1, <2>1 DEF SegIds, AllIds
  <2>. QED
    BY <1>2, <2>1, <2>2 DEF Marked, MarkedRow
<1>. QED
  BY <1>3

\* Each step keeps the chunks behind a machine marked.
LEMMA SentMarkedNext ==
  ASSUME TypeOK, ClientInv, AckedMarked, SentMarked, [Next]_vars, [PipelineNext]_allVars
  PROVE  SentMarked'
<1>1. PICK P : P = {c \in Chunks : Marked(c)}
  OBVIOUS
<1>2. PICK Q : Q = {c \in Chunks : Marked(c)'}
  OBVIOUS
<1>3. P \subseteq Q
  BY <1>1, <1>2, MarksStay
<1>4. SentIn(P)
  BY <1>1 DEF SentMarked
<1>5. \A t \in IngestThreads :
        reply[t] \in {"ok", "duplicate"} /\ chunk[t] \in Chunks => chunk[t] \in P
  BY <1>1 DEF AckedMarked
<1>6. SentIn(Q)'
  BY <1>3, <1>4, <1>5, SentNext
<1>. QED
  BY <1>2, <1>6 DEF SentMarked

\* Only a commit adds to the log, and it adds the batch of its own request.
LEMMA LogSteps ==
  ASSUME TypeOK, TypeOK', [Next]_vars
  PROVE  log' = log \/ \E t \in IngestThreads : Commit(t)
BY WorkOrQuiet DEF Quiet, Admit, Mark, Record

\* Each step keeps the log in the order of each job's chunks.
LEMMA LogInOrderNext ==
  ASSUME AllIds, TypeOK, TypeOK', MarkInv, LoadOrderInv, [Next]_vars
  PROVE  LogInOrder' /\ JobLandsInOrder'
<1>0. LogInOrder /\ JobLandsInOrder /\ RequestsInOrder /\ BatchIdsNew
  BY DEF LoadOrderInv, MarkInv
<1>1. CASE log' = log
  <2>1. ASSUME NEW tb \in Tables, NEW i \in 1 .. Len(log[tb])
        PROVE  Earlier(log[tb][i].chunk)'
    <3>1. PICK d : d = log[tb][i].chunk
      OBVIOUS
    <3>2. Earlier(d)'
      BY <1>0, <3>1, EarlierStays DEF LogInOrder
    <3>. QED
      BY <1>1, <3>1, <3>2 DEF Earlier
  <2>. QED
    BY <1>0, <1>1, <2>1 DEF LogInOrder, JobLandsInOrder
<1>2. ASSUME NEW t \in IngestThreads, Commit(t)
      PROVE  LogInOrder' /\ JobLandsInOrder'
  <2>. DEFINE b == batch[t]
              tc == b.chunk.table
  <2>1. /\ b \in BatchType /\ b.chunk = chunk[t] /\ b.chunk \in Chunks /\ tc \in Tables
        /\ \A tb \in Tables : \A i \in 1 .. Len(log'[tb]) :
             \/ i \in 1 .. Len(log[tb]) /\ log'[tb][i] = log[tb][i]
             \/ i = Len(log[tb]) + 1 /\ tb = tc /\ log'[tb][i] = b
    BY <1>2, CommitAppends, BatchFields
  <2>2. pc[t] = "commit"
    BY <1>2 DEF Commit
  <2>3. Earlier(b.chunk)
    BY <1>0, <2>1, <2>2 DEF RequestsInOrder
  <2>4. LogInOrder'
    <3>1. ASSUME NEW tb \in Tables, NEW i \in 1 .. Len(log'[tb])
          PROVE  Earlier(log[tb][i].chunk)'
      <4>1. PICK d : d = log'[tb][i].chunk
        OBVIOUS
      <4>2. Earlier(d)
        BY <1>0, <2>1, <2>3, <4>1 DEF LogInOrder
      <4>3. Earlier(d)'
        BY <4>2, EarlierStays
      <4>. QED
        BY <4>1, <4>3 DEF Earlier
    <3>. QED
      BY <3>1 DEF LogInOrder
  <2>5. ASSUME b.kept # {}, NEW i \in 1 .. Len(log[tc]), log[tc][i].chunk.load = b.chunk.load,
               log[tc][i].chunk.job = b.chunk.job
        PROVE  log[tc][i].chunk.seq <= b.chunk.seq
    <3>1. ~Marked(b.chunk)
      BY <1>0, <2>1, <2>2, <2>5, MarkedWritesNothing
    <3>2. ~(b.chunk.seq < log[tc][i].chunk.seq)
      BY <1>0, <2>1, <2>5, <3>1 DEF LogInOrder, Earlier
    <3>3. b.chunk.seq \in Nat /\ log[tc][i].chunk.seq \in Nat
      BY <2>1, LogTypes, BatchFields, ChunksAssumption DEF ChunkType
    <3>. QED
      BY <3>2, <3>3
  <2>6. JobLandsInOrder'
    <3>1. CASE b.kept = {}
      BY <1>0, <1>2, <3>1 DEF Commit, JobLandsInOrder
    <3>2. CASE b.kept # {}
      <4>. SUFFICES ASSUME NEW tb \in Tables, NEW i \in 1 .. Len(log'[tb]), NEW k \in 1 .. Len(log'[tb]),
                           i < k, log'[tb][i].chunk.load = log'[tb][k].chunk.load,
                           log'[tb][i].chunk.job = log'[tb][k].chunk.job
                    PROVE  log'[tb][i].chunk.seq <= log'[tb][k].chunk.seq
        BY DEF JobLandsInOrder
      <4>1. Len(log[tb]) \in Nat /\ Len(log'[tb]) \in Nat
        BY LogTypes DEF TypeOK, StoreTypeOK
      <4>2. CASE k \in 1 .. Len(log[tb]) /\ log'[tb][k] = log[tb][k]
        <5>1. i \in 1 .. Len(log[tb]) /\ log'[tb][i] = log[tb][i]
          BY <2>1, <4>1, <4>2
        <5>. QED
          BY <1>0, <4>2, <5>1 DEF JobLandsInOrder
      <4>3. CASE k = Len(log[tb]) + 1 /\ tb = tc /\ log'[tb][k] = b
        <5>1. i \in 1 .. Len(log[tb]) /\ log'[tb][i] = log[tb][i]
          BY <2>1, <4>1, <4>3
        <5>. QED
          BY <2>5, <3>2, <4>3, <5>1
      <4>. QED
        BY <2>1, <4>2, <4>3
    <3>. QED
      BY <3>1, <3>2
  <2>. QED
    BY <2>4, <2>6
<1>. QED
  BY <1>1, <1>2, LogSteps

\* Each step keeps requests, marks and log in the order of each job's chunks.
LEMMA LoadOrderNext ==
  ASSUME AllIds, StableChunks, TypeOK, TypeOK', ClientInv, MarkInv, LoadOrderInv,
         [Next]_vars, [PipelineNext]_allVars
  PROVE  LoadOrderInv'
<1>1. SentMarked'
  BY SentMarkedNext DEF LoadOrderInv, MarkInv
<1>2. ASSUME NEW t \in IngestThreads, pc'[t] # "idle"
      PROVE  Earlier(chunk[t])' /\ FromMachine(chunk[t])'
  <2>1. PICK d : d = chunk'[t]
    OBVIOUS
  <2>2. Earlier(d) /\ FromMachine(d)
    <3>1. CASE pc[t] # "idle" /\ chunk'[t] = chunk[t]
      BY <2>1, <3>1 DEF LoadOrderInv, RequestsInOrder
    <3>2. CASE \E m \in Machines : /\ InFlight(m) /\ job[m] # StateJob
                                   /\ chunk'[t] = Package[m][job[m]][seq[m] + 1]
      BY <2>1, <3>2, SendsInOrder DEF LoadOrderInv
    <3>. QED
      BY <1>2, <3>1, <3>2, RequestsStay
  <2>3. Earlier(d)'
    BY <2>2, EarlierStays
  <2>. QED
    BY <2>1, <2>2, <2>3 DEF Earlier, FromMachine
<1>3. RequestsInOrder'
  BY <1>2 DEF RequestsInOrder
<1>. QED
  BY <1>1, <1>3, LogInOrderNext DEF LoadOrderInv

\* The invariants of this module hold in every run of the pipeline.
LEMMA LoadOrderHolds ==
  ASSUME AnyVersion, AllIds, StableChunks
  PROVE  PipelineSpec => [](MarkInv /\ LoadOrderInv)
<1>1. PipelineInit => MarkInv /\ LoadOrderInv
  <2>. SUFFICES ASSUME PipelineInit PROVE MarkInv /\ LoadOrderInv
    OBVIOUS
  <2>1. MarkInv
    BY DEF PipelineInit, Init, MarkInv, BatchIdsNew, BatchesMarked, LedgerMarked, AckedMarked, Threads
  <2>2. SentMarked
    BY DEF PipelineInit, SentMarked, SentIn, Done, Sent, InFlight
  <2>3. RequestsInOrder /\ LogInOrder /\ JobLandsInOrder
    BY DEF PipelineInit, Init, RequestsInOrder, LogInOrder, JobLandsInOrder, Threads
  <2>. QED
    BY <2>1, <2>2, <2>3 DEF LoadOrderInv
<1>2. /\ TypeOK /\ TypeOK' /\ EntryLock /\ ClientInv /\ MarkInv /\ LoadOrderInv
      /\ [Next]_vars /\ [PipelineNext]_allVars
      => MarkInv' /\ LoadOrderInv'
  BY MarkInvNext, LoadOrderNext
<1>. QED
  BY <1>1, <1>2, PipelineIsServer, TypeCorrect, EntryLockHeld, PTL DEF PipelineSpec, Spec

\* The chunks of a job land in the order of its file, however often the job is
\* run again while handlers of its earlier requests are still running.
THEOREM JobsLandInOrder ==
  ASSUME AnyVersion, AllIds, StableChunks
  PROVE  PipelineSpec => []JobLandsInOrder
<1>1. LoadOrderInv => JobLandsInOrder
  BY DEF LoadOrderInv
<1>. QED
  BY <1>1, LoadOrderHolds, PTL

-----------------------------------------------------------------------------
(* A completed load is final                                               *)

\* The chunks of a load that a machine takes for complete are marked.
LEMMA DoneIsMarked ==
  ASSUME ClientInv, SentMarked, NEW m \in Machines, phase[m] = "done", NEW c \in ChunksOf(m)
  PROVE  Marked(c)
<1>1. todo[m] = {}
  BY DEF ClientInv, RequestOK
<1>2. PICK j \in DOMAIN Package[m] : c \in ToSet(Package[m][j])
  BY DEF ChunksOf
<1>3. PICK n \in 1 .. Len(Package[m][j]) : c = Package[m][j][n]
  BY <1>2, PackageFacts DEF ToSet
<1>. QED
  BY <1>1, <1>3 DEF SentMarked, SentIn, Done

\* A load that a machine takes for complete gets no more segments.
LEMMA DoneStays ==
  ASSUME AllIds, OneLoadEach, TypeOK, TypeOK', ClientInv, MarkInv, LoadOrderInv, [Next]_vars,
         NEW m \in Machines, phase[m] = "done"
  PROVE  SegmentsOf(LoadOf[m])' = SegmentsOf(LoadOf[m])
<1>. DEFINE l == LoadOf[m]
<1>1. CASE log' = log
  BY <1>1, SegmentsStay
<1>2. ASSUME NEW t \in IngestThreads, Commit(t)
      PROVE  SegmentsOf(l)' = SegmentsOf(l)
  <2>1. pc[t] = "commit" /\ batch[t].chunk = chunk[t]
    BY <1>2, CommitAppends DEF Commit
  <2>2. PICK n \in Machines : chunk[t] \in ChunksOf(n)
    BY <2>1 DEF LoadOrderInv, RequestsInOrder, FromMachine
  <2>3. chunk[t].load = LoadOf[n]
    <3>1. PICK j \in DOMAIN Package[n] : chunk[t] \in ToSet(Package[n][j])
      BY <2>2 DEF ChunksOf
    <3>. QED
      BY <3>1, PackageAssumption DEF ToSet
  <2>4. CASE n = m
    <3>1. Marked(chunk[t])
      BY <2>2, <2>4, DoneIsMarked DEF LoadOrderInv
    <3>2. batch[t].kept = {}
      BY <2>1, <3>1, MarkedWritesNothing DEF MarkInv
    <3>3. log' = log
      BY <1>2, <3>2 DEF Commit
    <3>. QED
      BY <1>1, <3>3
  <2>5. CASE n # m
    <3>1. batch[t].chunk.load # l
      BY <2>1, <2>3, <2>5 DEF OneLoadEach
    <3>2. ASSUME NEW tb \in Tables, NEW i \in 1 .. MaxArrivals
          PROVE  i <= Len(log'[tb]) /\ log'[tb][i].chunk.load = l
                   <=> i <= Len(log[tb]) /\ log[tb][i].chunk.load = l
      <4>1. Len(log[tb]) \in Nat /\ Len(log'[tb]) \in Nat
        BY LogTypes DEF TypeOK, StoreTypeOK
      <4>2. i <= Len(log[tb]) => i <= Len(log'[tb]) /\ log'[tb][i] = log[tb][i]
        BY <1>2, <4>1, CommitAppends
      <4>3. i <= Len(log'[tb]) => i <= Len(log[tb]) \/ log'[tb][i] = batch[t]
        BY <1>2, <4>1, CommitAppends
      <4>. QED
        BY <3>1, <4>2, <4>3
    <3>. QED
      BY <3>2, SegmentsStay
  <2>. QED
    BY <2>4, <2>5
<1>. QED
  BY <1>1, <1>2, LogSteps

\* Once complete_load has been called and answered, no handler of an earlier,
\* given-up request adds to the load: all of its rows are marked by then.
THEOREM CompletedLoadsAreFinal ==
  ASSUME AnyVersion, AllIds, StableChunks, OneLoadEach
  PROVE  PipelineSpec => CompletedLoadIsFinal
<1>1. TypeOK /\ TypeOK' /\ ClientInv /\ MarkInv /\ LoadOrderInv /\ [Next]_vars
      => [\A m \in Machines :
            phase[m] = "done" => SegmentsOf(LoadOf[m])' = SegmentsOf(LoadOf[m])]_allVars
  BY DoneStays
<1>. QED
  BY <1>1, PipelineIsServer, TypeCorrect, LoadOrderHolds, PTL DEF Spec, CompletedLoadIsFinal
=============================================================================
