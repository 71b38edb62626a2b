-------------------------- MODULE DeployLocal_proofs --------------------------
(***************************************************************************)
(* Theorems about the gate, for every set of scripts and any number of     *)
(* edits.  Executing a script is deterministic: nothing below needs more   *)
(* than where it stops and which pipeline was constructed last by then.    *)
(***************************************************************************)
EXTENDS DeployLocal, Ordering_proofs

\* The gate is one part of the command and does not depend on the other.
LEMMA GateOfCommand == Spec => GateSpec
<1>1. Init => GateInit
  BY DEF Init
<1>2. [Next]_<<gateVars, packageVars>> => [GateNext]_gateVars
  BY DEF Next
<1>. QED
  BY <1>1, <1>2, PTL DEF Spec, GateSpec

-----------------------------------------------------------------------------
(* The process                                                             *)

\* The harness is entered and left as a whole: what it replaces is replaced
\* exactly while it is on, and no script names the user's DLT_DATA_DIR.
ProcessInv ==
  /\ harness \in {"off", "runs", "body"}
  /\ IF harness = "off" THEN patched = FALSE /\ dataDir = "user"
     ELSE patched = TRUE /\ dataDir = "temporary"
  /\ file \in Scripts
  /\ harness # "off" =>
       /\ call \in {"run_gate", "gate_again", "open"}
       /\ script \in Scripts /\ at \in Nat \ {0}
       /\ active = None \/ active.dir # "user"
  /\ RunIsIntercepted

\* The command starts with nothing patched and nothing redirected.
LEMMA ProcessInit == GateInit => ProcessInv
BY DEF GateInit, ProcessInv, RunIsIntercepted

\* Each step of the gate keeps the patches on exactly while the harness runs.
LEMMA ProcessNext == ProcessInv /\ [GateNext]_gateVars => ProcessInv'
<1>. SUFFICES ASSUME ProcessInv, [GateNext]_gateVars PROVE ProcessInv'
  OBVIOUS
<1>. USE DEF ProcessInv, RunIsIntercepted
<1>1. CASE Enter
  BY <1>1 DEF Enter, DirDuringRun
<1>2. CASE Raise \/ Inspect \/ Gather
  BY <1>2 DEF Raise, Inspect, Gather, Leave, Restored, Running
<1>3. CASE RunPipeline
  <2>1. Opened.dir # "user"
    BY <1>3, GateAssumption DEF RunPipeline, Running, Opened, Pipeline
  <2>. QED
    BY <1>3, <2>1 DEF RunPipeline, Running
<1>4. CASE LoadDirectly
  <2>1. Opened.dir # "user" /\ dataDir = "temporary"
    BY <1>4, GateAssumption DEF LoadDirectly, Running, Opened, Pipeline
  <2>2. Contacted("load").how = "load" /\ Contacted("load").pipeline[2] # "user"
    BY <2>1 DEF Contacted, Where
  <2>3. \A c \in contacts' : c.how = "load" /\ c.pipeline[2] # "user"
    BY <1>4, <2>2 DEF LoadDirectly
  <2>. QED
    BY <1>4, <2>1, <2>3 DEF LoadDirectly, Running
<1>5. CASE Construct
  <2>1. script[at].dir # "user"
    BY <1>5, ScriptsAssumption DEF Construct, Running
  <2>2. active'.dir = script[at].dir
    BY <1>5 DEF Construct, Statement, Pipeline
  <2>. QED
    BY <1>5, <2>1, <2>2 DEF Construct, Running
<1>6. CASE Edit \/ RecoverSecrets
  <2>1. CASE Edit
    BY <2>1 DEF Edit
  <2>2. CASE RecoverSecrets
    BY <2>2 DEF RecoverSecrets
  <2>. QED
    BY <1>6, <2>1, <2>2
<1>7. CASE UNCHANGED gateVars
  BY <1>7 DEF gateVars
<1>8. CASE ScriptEnds
  BY <1>8 DEF ScriptEnds
<1>. QED
  BY <1>1, <1>2, <1>3, <1>4, <1>5, <1>6, <1>7, <1>8 DEF GateNext

\* However a script or the gate ends, Pipeline.run is dlt's own again and
\* DLT_DATA_DIR the user's.
THEOREM ProcessRestored == Spec => []ProcessIsRestored
<1>1. ProcessInv => ProcessIsRestored
  BY DEF ProcessInv, ProcessIsRestored
<1>. QED
  BY <1>1, GateOfCommand, ProcessInit, ProcessNext, PTL DEF GateSpec

\* Whatever a script is made of, no Pipeline.run is executed for real while it is
\* inspected.  What the script loads by calling extract, normalize or load is
\* executed for real, but never with its state under the user's DLT_DATA_DIR.
THEOREM RunsIntercepted == Spec => []RunIsIntercepted
<1>1. ProcessInv => RunIsIntercepted
  BY DEF ProcessInv
<1>. QED
  BY <1>1, GateOfCommand, ProcessInit, ProcessNext, PTL DEF GateSpec

-----------------------------------------------------------------------------
(* What is registered has passed the gate                                  *)

Stops(s, i) == s[i].op = "run" /\ ~s[i].guarded

\* The intercepted execution of s gets as far as statement n.
Reaches(s, n) == n \in 1 .. Len(s) + 1 /\ \A i \in 1 .. n - 1 : ~Stops(s, i)

\* It ends there, and the body of the harness goes on.
EndsAt(s, n) == Reaches(s, n) /\ (n <= Len(s) => Stops(s, n))

\* The last pipeline constructed before n is by statement j.
LastMade(s, n, j) ==
  /\ j \in 1 .. n - 1 /\ s[j].op = "pipeline"
  /\ \A i \in j + 1 .. n - 1 : s[i].op # "pipeline"

NoneMade(s, n) == \A i \in 1 .. n - 1 : s[i].op # "pipeline"

\* The gate lets s through.
Passes(s) ==
  \E n \in 1 .. Len(s) + 1 :
    EndsAt(s, n) /\ \E j \in 1 .. n - 1 : LastMade(s, n, j) /\ s[j].dest = "matterbeam"

\* active is the last pipeline that script has constructed before at.
ActiveInv ==
  \/ NoneMade(script, at) /\ (active = None \/ active = Pipeline(Default, None, None))
  \/ \E j \in 1 .. at - 1 :
        LastMade(script, at, j) /\ active = Pipeline(script[j].name, script[j].dest, script[j].dir)

GateInv ==
  /\ ProcessInv
  /\ edits \in Nat
  /\ harness # "off" =>
       /\ Reaches(script, at) /\ ActiveInv
       /\ edits = 0 => script = file
  /\ harness = "body" => EndsAt(script, at)
  /\ call \in {"run_gate", "gate_again", "open"} => registered = None
  /\ call \in {"gate_again", "open"} => Passes(checked) /\ (edits = 0 => checked = file)
  /\ OnlyCollectors

\* An execution ends at one statement only, with one pipeline active.
LEMMA OneEnd ==
  ASSUME NEW s \in Scripts, NEW m, NEW n, EndsAt(s, m), EndsAt(s, n)
  PROVE  m = n
BY ScriptsAssumption DEF EndsAt, Reaches

\* A script's last pipeline made before a statement is one pipeline.
LEMMA OneLast ==
  ASSUME NEW s, NEW n \in Nat, NEW i, NEW j, LastMade(s, n, i), LastMade(s, n, j)
  PROVE  i = j
BY DEF LastMade

\* A script that passes has made a pipeline by the statement it ends at.
LEMMA PassesEndsMade ==
  ASSUME NEW s \in Scripts, NEW n, EndsAt(s, n), Passes(s)
  PROVE  \E j \in 1 .. n - 1 : s[j].op = "pipeline"
<1>1. PICK m \in 1 .. Len(s) + 1 : EndsAt(s, m) /\ \E j \in 1 .. m - 1 : LastMade(s, m, j)
  BY DEF Passes
<1>2. m = n
  BY <1>1, OneEnd
<1>. QED
  BY <1>1, <1>2 DEF LastMade

\* A script that passes ends with a matterbeam pipeline active, each time.
LEMMA PassesAgain ==
  ASSUME GateInv, harness = "body", Passes(script)
  PROVE  active # None /\ active.dest = "matterbeam"
<1>1. script \in Scripts /\ EndsAt(script, at) /\ ActiveInv
  BY DEF GateInv, ProcessInv
<1>2. PICK n \in 1 .. Len(script) + 1 :
        EndsAt(script, n) /\ \E j \in 1 .. n - 1 : LastMade(script, n, j) /\ script[j].dest = "matterbeam"
  BY DEF Passes
<1>3. at = n
  BY <1>1, <1>2, OneEnd
<1>4. PICK j \in 1 .. at - 1 : LastMade(script, at, j) /\ script[j].dest = "matterbeam"
  BY <1>2, <1>3
<1>5. at \in Nat
  BY <1>1, ScriptsAssumption DEF EndsAt, Reaches
<1>6. PICK i \in 1 .. at - 1 :
        LastMade(script, at, i) /\ active = Pipeline(script[i].name, script[i].dest, script[i].dir)
  BY <1>1, <1>4 DEF ActiveInv, NoneMade, LastMade
<1>7. i = j
  BY <1>4, <1>5, <1>6, OneLast
<1>8. j \in DOMAIN script
  BY <1>1, <1>4, ScriptsAssumption DEF EndsAt, Reaches
<1>. QED
  BY <1>1, <1>4, <1>6, <1>7, <1>8, ScriptsAssumption DEF Pipeline

\* The gate starts with nothing made, executed or registered.
LEMMA GateStart == GateInit => GateInv
BY ProcessInit DEF GateInit, GateInv, OnlyCollectors

\* Each step of the gate keeps what is known of the executed scripts.
LEMMA GateStep == GateInv /\ [GateNext]_gateVars => GateInv'
<1>. SUFFICES ASSUME GateInv, [GateNext]_gateVars PROVE GateInv'
  OBVIOUS
<1>p. ProcessInv'
  BY ProcessNext DEF GateInv
<1>f. /\ file \in Scripts
      /\ harness # "off" => script \in Scripts /\ at \in Nat /\ Len(script) \in Nat
      /\ harness \in {"off", "runs", "body"}
  BY ScriptsAssumption DEF GateInv, ProcessInv
<1>1. CASE Edit
  BY <1>p, <1>1 DEF Edit, GateInv, OnlyCollectors, ActiveInv, Reaches, EndsAt, LastMade, NoneMade
<1>2. CASE Enter
  <2>1. /\ harness' = "runs" /\ script' = file /\ at' = 1 /\ active' = None
        /\ call \in {"run_gate", "gate_again", "open"}
        /\ UNCHANGED <<file, edits, call, checked, registered>>
    BY <1>2 DEF Enter
  <2>2. Reaches(script, at)' /\ ActiveInv'
    BY <1>f, <2>1, ScriptsAssumption DEF GateInv, Reaches, ActiveInv, NoneMade
  <2>. QED
    BY <1>p, <2>1, <2>2 DEF GateInv, OnlyCollectors, Passes
<1>3. CASE Construct
  <2>1. /\ harness = "runs" /\ at <= Len(script) /\ script[at].op = "pipeline"
        /\ active' = Pipeline(script[at].name, script[at].dest, script[at].dir) /\ at' = at + 1
        /\ UNCHANGED <<file, edits, call, harness, script, checked, registered>>
    BY <1>3 DEF Construct, Running, Statement
  <2>2. script \in Scripts /\ Reaches(script, at) /\ at \in Nat /\ Len(script) \in Nat
    BY <1>f, <2>1 DEF GateInv
  <2>3. Reaches(script, at)'
    BY <2>1, <2>2 DEF Reaches, Stops
  <2>4. at \in 1 .. at' - 1 /\ LastMade(script, at', at)
    BY <2>1, <2>2 DEF LastMade, Reaches
  <2>5. ActiveInv'
    BY <2>1, <2>4 DEF ActiveInv, LastMade
  <2>. QED
    BY <1>p, <2>1, <2>3, <2>5 DEF GateInv, OnlyCollectors, Passes
<1>4. CASE RunPipeline \/ LoadDirectly
  <2>1. /\ harness = "runs" /\ at <= Len(script) /\ script[at].op # "pipeline"
        /\ \/ at' = at + 1 /\ harness' = "runs" /\ ~Stops(script, at)
           \/ at' = at /\ harness' = "body" /\ Stops(script, at)
        /\ active' = Opened
        /\ UNCHANGED <<file, edits, call, script, checked, registered>>
    BY <1>4 DEF RunPipeline, LoadDirectly, Running, Statement, Stops, GateInv, ProcessInv
  <2>2. script \in Scripts /\ Reaches(script, at) /\ at \in Nat /\ Len(script) \in Nat /\ ActiveInv
    BY <1>f, <2>1 DEF GateInv
  <2>3. Reaches(script, at)'
    BY <2>1, <2>2 DEF Reaches, Stops
  <2>4. ActiveInv'
    <3>1. (at' = at \/ at' = at + 1) /\ UNCHANGED script
      BY <2>1
    <3>2. CASE NoneMade(script, at) /\ (active = None \/ active = Pipeline(Default, None, None))
      <4>1. NoneMade(script, at)'
        BY <2>1, <2>2, <3>1, <3>2 DEF NoneMade
      <4>2. active' = Pipeline(Default, None, None)
        BY <2>1, <3>2 DEF Opened
      <4>. QED
        BY <4>1, <4>2 DEF ActiveInv
    <3>3. ASSUME NEW j \in 1 .. at - 1, LastMade(script, at, j),
                 active = Pipeline(script[j].name, script[j].dest, script[j].dir)
          PROVE  ActiveInv'
      <4>1. j \in 1 .. at' - 1 /\ LastMade(script, at', j)
        BY <2>1, <2>2, <3>1, <3>3 DEF LastMade
      <4>2. active # None
        <5>1. j \in DOMAIN script
          BY <2>2, <3>3 DEF Reaches
        <5>. QED
          BY <2>2, <3>3, <5>1, ScriptsAssumption DEF Pipeline
      <4>3. active' = active /\ UNCHANGED script
        BY <2>1, <4>2 DEF Opened
      <4>. QED
        BY <3>3, <4>1, <4>3 DEF ActiveInv, LastMade
    <3>. QED
      BY <2>2, <3>2, <3>3 DEF ActiveInv
  <2>5. harness' = "body" => EndsAt(script, at)'
    BY <2>1, <2>2, <2>3 DEF EndsAt, Stops
  <2>. QED
    BY <1>p, <2>1, <2>3, <2>4, <2>5 DEF GateInv, OnlyCollectors, Passes
<1>5. CASE ScriptEnds
  <2>1. harness = "runs" /\ harness' = "body" /\ at > Len(script)
        /\ UNCHANGED <<file, edits, call, script, at, active, checked, registered>>
    BY <1>5 DEF ScriptEnds
  <2>2. EndsAt(script, at)'
    BY <1>f, <2>1 DEF GateInv, EndsAt, Reaches, Stops
  <2>. QED
    BY <1>p, <2>1, <2>2 DEF GateInv, OnlyCollectors, ActiveInv, EndsAt, Passes, LastMade, NoneMade
<1>6. CASE Inspect
  <2>1. /\ harness = "body" /\ harness' = "off" /\ call \in {"run_gate", "gate_again"}
        /\ call' \in {"gate_again", "open", "failed"}
        /\ call' # "failed" => Outcome = "collector" /\ checked' = script
        /\ UNCHANGED <<file, edits, script, registered>>
    BY <1>6 DEF Inspect, Leave, After
  <2>2. Outcome = "collector" => Passes(script)
    <3>1. script \in Scripts /\ EndsAt(script, at) /\ ActiveInv
      BY <1>f, <2>1 DEF GateInv
    <3>2. Outcome = "collector" => active.dest = "matterbeam" /\ active.dest # None
      BY DEF Outcome
    <3>3. at \in 1 .. Len(script) + 1
      BY <3>1 DEF EndsAt, Reaches
    <3>4. Pipeline(Default, None, None).dest = None
      BY DEF Pipeline
    <3>5. ASSUME Outcome = "collector"
          PROVE  \E j \in 1 .. at - 1 : LastMade(script, at, j) /\ script[j].dest = "matterbeam"
      <4>1. active # Pipeline(Default, None, None) /\ active # None
        BY <3>2, <3>4, <3>5 DEF Outcome
      <4>. QED
        BY <3>1, <3>2, <3>5, <4>1 DEF ActiveInv, Pipeline
    <3>. QED
      BY <3>1, <3>3, <3>5 DEF Passes
  <2>3. edits = 0 => script = file
    BY <2>1 DEF GateInv
  <2>4. \A s : s = script => (Passes(s) => Passes(script))
    OBVIOUS
  <2>5. registered = None
    BY <2>1 DEF GateInv
  <2>6. call' \in {"gate_again", "open"} => Passes(checked') /\ (edits' = 0 => checked' = file')
    BY <2>1, <2>2, <2>3
  <2>7. OnlyCollectors'
    BY <2>1, <2>5 DEF OnlyCollectors
  <2>. QED
    BY <1>p, <2>1, <2>5, <2>6, <2>7 DEF GateInv, Passes, EndsAt, Reaches, LastMade
<1>7. CASE Gather
  <2>1. /\ harness = "body" /\ harness' = "off" /\ call = "open" /\ call' \in {"recover", "failed"}
        /\ registered' = registered \/ registered' = Opened
        /\ UNCHANGED <<file, edits, script, checked>>
    BY <1>7 DEF Gather, Leave
  <2>2. registered = None
    BY <2>1 DEF GateInv
  <2>3. script = checked => Opened.dest = "matterbeam"
    BY <2>1, PassesAgain DEF GateInv, Opened
  <2>4. OnlyCollectors'
    BY <2>1, <2>2, <2>3 DEF OnlyCollectors
  <2>. QED
    BY <1>p, <2>1, <2>4 DEF GateInv
<1>8. CASE Raise \/ RecoverSecrets
  <2>1. /\ harness' = "off" /\ call' \in {"failed", "package"}
        /\ UNCHANGED <<file, edits, script, checked, registered>>
    <3>1. CASE Raise
      BY <3>1 DEF Raise, Leave
    <3>2. CASE RecoverSecrets
      BY <3>2 DEF RecoverSecrets, GateInv, ProcessInv
    <3>. QED
      BY <1>8, <3>1, <3>2
  <2>. QED
    BY <1>p, <2>1 DEF GateInv, OnlyCollectors
<1>9. CASE UNCHANGED gateVars
  BY <1>p, <1>9 DEF gateVars, GateInv, OnlyCollectors, ActiveInv, Reaches, EndsAt, LastMade, NoneMade,
     Passes
<1>. QED
  BY <1>1, <1>2, <1>3, <1>4, <1>5, <1>6, <1>7, <1>8, <1>9 DEF GateNext

\* The third execution of the script is not inspected, but when it is of what the
\* gate has let through, only a pipeline with destination matterbeam is
\* registered, whatever the script does on its way there.
THEOREM CollectorsOnly == Spec => []OnlyCollectors
<1>1. GateInv => OnlyCollectors
  BY DEF GateInv
<1>. QED
  BY <1>1, GateOfCommand, GateStart, GateStep, PTL DEF GateSpec
-----------------------------------------------------------------------------
(* Whose secrets are recovered                                             *)

\* What is registered is a pipeline the file names.
Named == \E j \in 1 .. Len(file) :
           file[j].op = "pipeline" /\ registered = Pipeline(file[j].name, file[j].dest, file[j].dir)

SecretsInv ==
  /\ call = "recover" /\ edits = 0 => Named
  /\ secrets # None =>
       /\ call = "package"
       /\ edits = 0 =>
            Named /\ secrets = <<Located.name, IF Located.dir = None THEN "user" ELSE Located.dir>>

\* Where the file names one pipeline, that is the first.
LEMMA SoleIsFirst ==
  ASSUME file \in Scripts, Len(PossiblePipelines) = 1,
         NEW j \in 1 .. Len(file), file[j].op = "pipeline"
  PROVE  Located.name = file[j].name /\ Located.dir = file[j].dir
<1>. DEFINE I == {i \in DOMAIN file : file[i].op = "pipeline"}
            made == Picked(file, I)
            V == ToSet(file)
<1>1. file \in Seq(V) /\ DOMAIN file = 1 .. Len(file) /\ I \in SUBSET (1 .. Len(file)) /\ j \in I
  BY ScriptsAssumption
<1>. HIDE DEF I, V
<1>2. /\ made \in Seq(V) /\ Len(made) = Cardinality(I) /\ IsFiniteSet(I) /\ Cardinality(I) \in Nat
      /\ \E from \in Bijection(1 .. Cardinality(I), I) :
           \A n \in 1 .. Cardinality(I) : made[n] = file[from[n]]
  BY <1>1, PickedIsSelection
<1>3. PossiblePipelines = made
  <2>1. PossiblePipelines # <<>>
    OBVIOUS
  <2>. QED
    BY <2>1 DEF PossiblePipelines, PipelineCalls, I
<1>. HIDE DEF made
<1>5. Cardinality(I) = 1
  BY <1>2, <1>3
<1>6. PICK from \in Bijection(1 .. 1, I) : made[1] = file[from[1]]
  BY <1>2, <1>5
<1>7. from[1] \in I /\ \A i \in I : i = from[1]
  <2>1. from \in [1 .. 1 -> I] /\ \A i \in I : \E n \in 1 .. 1 : from[n] = i
    BY Fun_BijectionProperties
  <2>. QED
    BY <2>1
<1>8. made[1] = file[j]
  BY <1>1, <1>6, <1>7
<1>9. PossiblePipelines # <<>> /\ PossiblePipelines[1] = made[1]
  BY <1>3
<1>. QED
  BY <1>8, <1>9 DEF Located

\* No secrets are recovered when the command starts.
LEMMA SecretsStart == GateInit => SecretsInv
BY DEF GateInit, SecretsInv

\* The secrets of an unedited script's only pipeline are its own after each step.
LEMMA SecretsStep == GateInv /\ SecretsInv /\ [GateNext]_gateVars => SecretsInv'
<1>. SUFFICES ASSUME GateInv, SecretsInv, [GateNext]_gateVars PROVE SecretsInv'
  OBVIOUS
<1>1. harness # "off" => call \in {"run_gate", "gate_again", "open"} /\ secrets = None
  BY DEF GateInv, ProcessInv, SecretsInv
<1>2. CASE Edit
  <2>1. edits' # 0 /\ UNCHANGED <<call, secrets>>
    BY <1>2 DEF Edit, GateInv
  <2>. QED
    BY <2>1 DEF SecretsInv
<1>3. CASE Enter
  BY <1>3 DEF Enter, SecretsInv, Named, Located, PossiblePipelines, PipelineCalls
<1>4. CASE Construct \/ RunPipeline \/ LoadDirectly \/ ScriptEnds
  <2>1. harness # "off" /\ UNCHANGED <<call, secrets>>
    BY <1>4 DEF Construct, RunPipeline, LoadDirectly, ScriptEnds, Running
  <2>. QED
    BY <1>1, <2>1 DEF SecretsInv
<1>5. CASE Raise \/ Inspect
  <2>1. harness # "off" /\ UNCHANGED secrets /\ call' # "recover"
    <3>1. CASE Raise
      BY <3>1 DEF Raise, Running, Leave
    <3>2. CASE Inspect
      <4>1. harness # "off" /\ UNCHANGED secrets
            /\ call' \in {"gate_again", "open", "failed"}
        BY <3>2 DEF Inspect, Leave, After
      <4>. QED
        BY <4>1
    <3>. QED
      BY <1>5, <3>1, <3>2
  <2>. QED
    BY <1>1, <2>1 DEF SecretsInv
<1>6. CASE Gather
  <2>1. /\ harness = "body" /\ call = "open" /\ UNCHANGED <<file, edits, secrets>>
        /\ call' = "recover" => registered' = Opened
    BY <1>6 DEF Gather, Leave
  <2>2. ASSUME edits = 0, call' = "recover"
        PROVE  Named'
    <3>1. /\ script = file /\ file \in Scripts /\ Passes(script) /\ EndsAt(script, at) /\ ActiveInv
      <4>1. script = file /\ checked = file /\ Passes(checked) /\ EndsAt(script, at) /\ ActiveInv
            /\ file \in Scripts
        BY <2>1, <2>2 DEF GateInv, ProcessInv
      <4>2. \A s : s = script => (Passes(s) => Passes(script))
        OBVIOUS
      <4>. QED
        BY <4>1, <4>2
    <3>2. active # None
      BY <2>1, <3>1, PassesAgain
    <3>3. PICK j \in 1 .. at - 1 :
            /\ LastMade(script, at, j)
            /\ active = Pipeline(script[j].name, script[j].dest, script[j].dir)
      <4>1. \E j \in 1 .. at - 1 : script[j].op = "pipeline"
        BY <3>1, PassesEndsMade
      <4>. QED
        BY <3>1, <4>1 DEF ActiveInv, NoneMade
    <3>4. j \in 1 .. Len(file) /\ file[j].op = "pipeline"
      BY <3>1, <3>3, ScriptsAssumption DEF EndsAt, Reaches, LastMade
    <3>. QED
      BY <2>1, <2>2, <3>1, <3>2, <3>3, <3>4 DEF Opened, Named
  <2>. QED
    BY <1>1, <2>1, <2>2 DEF SecretsInv
<1>7. CASE RecoverSecrets
  <2>1. /\ call = "recover" /\ UNCHANGED <<file, edits, registered>>
        /\ \/ secrets' = <<Located.name, Where(Located.dir)>> /\ call' = "package"
           \/ UNCHANGED secrets /\ call' = "failed"
    BY <1>7 DEF RecoverSecrets
  <2>2. dataDir = "user"
    BY <1>1, <2>1 DEF GateInv, ProcessInv
  <2>3. secrets = None
    BY <2>1 DEF SecretsInv
  <2>. QED
    BY <2>1, <2>2, <2>3 DEF SecretsInv, Named, Located, PossiblePipelines, PipelineCalls, Where
<1>8. CASE UNCHANGED gateVars
  BY <1>8 DEF gateVars, SecretsInv, Named, Located, PossiblePipelines, PipelineCalls
<1>. QED
  BY <1>2, <1>3, <1>4, <1>5, <1>6, <1>7, <1>8 DEF GateNext

\* Where the text of a script names one pipeline, and its name and directory are
\* literals, the secrets that go with it are those of the pipeline that was
\* registered, from that directory or the user's own.  A name or directory that
\* is computed makes recover_secrets fall back to the default pipeline.
THEOREM SoleSecrets == Spec => []SecretsOfSole
<1>1. GateInv /\ SecretsInv => SecretsOfSole
  <2>1. SUFFICES ASSUME GateInv, SecretsInv, secrets # None, edits = 0, Len(PossiblePipelines) = 1
                 PROVE  secrets = <<registered.name,
                                    IF registered.dir = None THEN "user" ELSE registered.dir>>
    BY DEF SecretsOfSole
  <2>2. PICK j \in 1 .. Len(file) :
          file[j].op = "pipeline"
          /\ registered = Pipeline(file[j].name, file[j].dest, file[j].dir)
    BY <2>1 DEF SecretsInv, Named
  <2>3. Located.name = file[j].name /\ Located.dir = file[j].dir
    BY <2>1, <2>2, SoleIsFirst DEF GateInv, ProcessInv
  <2>. QED
    BY <2>1, <2>2, <2>3 DEF SecretsInv, Pipeline
<1>. QED
  BY <1>1, GateOfCommand, GateStart, GateStep, SecretsStart, SecretsStep, PTL DEF GateSpec

-----------------------------------------------------------------------------
(* The package                                                             *)

\* What has been read of a file: some bytes of it.
Kept == {[c EXCEPT !.size = n] : c \in Contents \cup {Frozen}, n \in Nat}
Members == Paths \X Kept
Entries == [path : Paths, size : Nat, hash : Kept]
Entry(m) == [path |-> m[1], size |-> m[2].size, hash |-> m[2]]

PackageType ==
  /\ tree \in [Paths -> Contents \cup {NoFile}] /\ changes \in Nat
  /\ walk \in {"walking", "done", "failed"}
  /\ dirs \subseteq {Root} \cup Dirs /\ listed \subseteq {Root} \cup Dirs
  /\ listing \subseteq Paths
  /\ current # <<>> => \E p \in Paths, n \in Nat : current = <<p, n>>
  /\ tar \in Seq(Members) /\ manifest \in Seq(Entries)

\* What the walk has written, and the file it is at.
Taken == {tar[i][1] : i \in 1 .. Len(tar)}
Pending == IF current = <<>> THEN {} ELSE {current[1]}

Recorded ==
  /\ Len(manifest) = Len(tar)
  /\ \A i \in 1 .. Len(tar) : manifest[i] = Entry(tar[i])

OnePath == \A i, j \in 1 .. Len(tar) : tar[i][1] = tar[j][1] => i = j

\* The walk has met the directories it can get to from those it has listed, and
\* a file once: it has taken it, is at it, or has it in the present listing.
WalkInv ==
  /\ dirs \cap listed = {} /\ Root \in dirs \cup listed
  /\ \A e \in Dirs :
       e \in dirs \cup listed <=> e \notin Ignored /\ Parent[e] \in listed \ Skipped
  /\ dirs \cup listed \subseteq Walked
  /\ listing \cap Pending = {} /\ (listing \cup Pending) \cap Taken = {}
  /\ \A p \in listing \cup Pending \cup Taken : p[1] \in listed \ Skipped /\ p[2] \notin Excluded

\* While nobody touches the directory, nothing of it is lost.
Untouched ==
  /\ \A p \in listing \cup Pending : tree[p] # NoFile
  /\ current # <<>> => current[2] = tree[current[1]].size
  /\ \A i \in 1 .. Len(tar) : tree[tar[i][1]] = tar[i][2]
  /\ \A q \in Paths :
       tree[q] # NoFile /\ q[1] \in listed \ Skipped /\ q[2] \notin Excluded =>
         q \in listing \cup Pending \cup Taken

PackageInv ==
  /\ PackageType
  /\ walk # "done" => Recorded /\ OnePath /\ WalkInv
  /\ walk = "walking" /\ changes = 0 => Untouched
  /\ ManifestMatchesTar /\ HashIgnoresOrder /\ HasRequirements /\ PackageIsDirectory

\* What is read of a content, and the frozen requirements.
LEMMA KeptOfContent ==
  ASSUME NEW c \in Contents \cup {Frozen}, NEW n \in Nat
  PROVE  /\ [c EXCEPT !.size = n] \in Kept /\ [c EXCEPT !.size = n].size = n
         /\ [c EXCEPT !.size = c.size] = c /\ c.size \in Nat /\ c \in Kept
<1>1. c = [version |-> c.version, size |-> c.size] /\ c.size \in Nat
  BY ContentsAssumption
<1>2. [c EXCEPT !.size = n].size = n /\ [c EXCEPT !.size = c.size] = c
  BY <1>1
<1>. QED
  BY <1>1, <1>2 DEF Kept

\* The contents a file can have have a size.
LEMMA KeptSize ==
  ASSUME NEW c \in Kept
  PROVE  c.size \in Nat
BY KeptOfContent DEF Kept

\* Entries are sorted by their paths.
LEMMA PathIsKey ==
  ASSUME NEW entries \in Seq(Entries)
  PROVE  /\ IsSortKey(ByPath(entries), entries)
         /\ \A i, j \in 1 .. Len(entries) :
              <<entries[i], entries[j]>> \in ByPath(entries)
              <=> PathLess(entries[i].path, entries[j].path)
<1>. DEFINE N == 1 .. Len(entries)
<1>1. \A i \in N : entries[i] \in ToSet(entries) /\ entries[i].path \in Paths
  <2>1. \A i \in N : i \in DOMAIN entries /\ entries[i] \in Entries
    OBVIOUS
  <2>. QED
    BY <2>1 DEF ToSet, Entries
<1>2. \A i, j \in N : <<entries[i], entries[j]>> \in ByPath(entries)
                      <=> PathLess(entries[i].path, entries[j].path)
  <2>. HIDE DEF N
  <2>. QED
    BY <1>1 DEF ByPath
<1>3. \A i, j \in N : PathLess(entries[i].path, entries[j].path)
                      => ~PathLess(entries[j].path, entries[i].path)
  <2>. HIDE DEF N
  <2>. QED
    BY <1>1, PathAssumption
<1>4. ASSUME NEW i \in N, NEW j \in N, NEW k \in N, PathLess(entries[i].path, entries[k].path)
      PROVE  PathLess(entries[i].path, entries[j].path) \/ PathLess(entries[j].path, entries[k].path)
  <2>. HIDE DEF N
  <2>. QED
    BY <1>1, <1>4, PathAssumption
<1>. QED
  BY <1>2, <1>3, <1>4 DEF IsSortKey

\* Sorting the manifest keeps its entries; with one path each they ascend.
LEMMA SortedManifest ==
  ASSUME NEW entries \in Seq(Entries)
  PROVE  /\ Sorted(entries) \in Seq(Entries) /\ ToSet(Sorted(entries)) = ToSet(entries)
         /\ (\A i, j \in 1 .. Len(entries) : entries[i].path = entries[j].path => i = j)
            => \A i, j \in 1 .. Len(Sorted(entries)) :
                 i < j => PathLess(Sorted(entries)[i].path, Sorted(entries)[j].path)
<1>. DEFINE N == 1 .. Len(entries)
            out == Sorted(entries)
<1>1. out \in Seq(Entries) /\ Len(out) = Len(entries)
  BY PathIsKey, SortedByIsSorted DEF Sorted
<1>2. \E from \in Bijection(N, N) :
        /\ \A n \in N : out[n] = entries[from[n]]
        /\ \A m, n \in N : m < n =>
             \/ <<entries[from[m]], entries[from[n]]>> \in ByPath(entries)
             \/ <<entries[from[n]], entries[from[m]]>> \notin ByPath(entries) /\ from[m] < from[n]
  BY PathIsKey, SortedByIsSorted DEF Sorted
<1>3. PICK from \in Bijection(N, N) :
        /\ \A n \in N : out[n] = entries[from[n]]
        /\ \A m, n \in N : m < n =>
             \/ <<entries[from[m]], entries[from[n]]>> \in ByPath(entries)
             \/ <<entries[from[n]], entries[from[m]]>> \notin ByPath(entries) /\ from[m] < from[n]
  BY <1>2
<1>4. /\ from \in [N -> N] /\ \A n \in N : \E m \in N : from[m] = n
      /\ \A m, n \in N : from[m] = from[n] => m = n
  <2>. HIDE DEF N
  <2>. QED
    BY <1>3, Fun_BijectionProperties
<1>5. ToSet(out) = ToSet(entries)
  <2>1. DOMAIN out = N /\ DOMAIN entries = N
    BY <1>1
  <2>. HIDE DEF N, out
  <2>. QED
    BY <1>3, <1>4, <2>1 DEF ToSet
<1>6. ASSUME \A i, j \in N : entries[i].path = entries[j].path => i = j,
             NEW i \in N, NEW j \in N, i < j
      PROVE  PathLess(out[i].path, out[j].path)
  <2>1. from[i] \in N /\ from[j] \in N /\ from[i] # from[j]
    <3>1. i # j
      BY <1>6
    <3>. HIDE DEF N
    <3>. QED
      BY <1>4, <3>1
  <2>2. entries[from[i]].path # entries[from[j]].path
    BY <1>6, <2>1
  <2>3. entries[from[i]].path \in Paths /\ entries[from[j]].path \in Paths
    <3>1. entries[from[i]] \in Entries /\ entries[from[j]] \in Entries
      BY <2>1
    <3>. QED
      BY <3>1 DEF Entries
  <2>4. PathLess(entries[from[i]].path, entries[from[j]].path)
    BY <1>3, <1>6, <2>1, <2>2, <2>3, PathIsKey, PathAssumption
  <2>. QED
    BY <1>3, <2>4
<1>. QED
  BY <1>1, <1>5, <1>6

\* The walk starts with an empty tar file and manifest.
LEMMA PackageStart == PackageInit => PackageInv
<1>. SUFFICES ASSUME PackageInit PROVE PackageInv
  OBVIOUS
<1>1. PackageType
  BY ContentsAssumption DEF PackageInit, PackageType
<1>2. Recorded /\ OnePath /\ Untouched
  BY DEF PackageInit, Recorded, OnePath, Untouched, Taken, Pending
<1>4. WalkInv
  BY PackageAssumption DEF PackageInit, WalkInv, Taken, Pending, Walked, Reachable
<1>3. ManifestMatchesTar /\ HashIgnoresOrder /\ HasRequirements /\ PackageIsDirectory
  BY DEF PackageInit, ManifestMatchesTar, HashIgnoresOrder, HasRequirements, PackageIsDirectory, ToSet
<1>. QED
  BY <1>1, <1>2, <1>3, <1>4 DEF PackageInv

\* Entries written with the members describe them.
LEMMA EntriesDescribe ==
  ASSUME NEW ms \in Seq(Members), NEW es \in Seq(Entries), Len(es) = Len(ms),
         \A i \in 1 .. Len(ms) : es[i] = Entry(ms[i])
  PROVE  /\ {<<e.path, e.hash>> : e \in ToSet(es)} = ToSet(ms)
         /\ \A e \in ToSet(es) : e.size = e.hash.size
<1>. DEFINE N == 1 .. Len(ms)
<1>1. DOMAIN ms = N /\ DOMAIN es = N /\ \A i \in N : ms[i] \in Members
  OBVIOUS
<1>2. \A i \in N : ms[i] = <<es[i].path, es[i].hash>> /\ es[i].size = es[i].hash.size
  BY <1>1 DEF Members, Entry
<1>. HIDE DEF N
<1>. QED
  BY <1>1, <1>2 DEF ToSet

\* What Package says of the finished package says nothing before the walk is done.
LEMMA StillWalking ==
  ASSUME PackageType', Recorded', walk' # "done"
  PROVE  ManifestMatchesTar' /\ HashIgnoresOrder' /\ HasRequirements' /\ PackageIsDirectory'
<1>1. /\ tar' \in Seq(Members) /\ manifest' \in Seq(Entries) /\ Len(manifest') = Len(tar')
      /\ \A i \in 1 .. Len(tar') : manifest'[i] = Entry(tar'[i])
  BY DEF PackageType, Recorded
<1>2. ManifestMatchesTar'
  BY <1>1, EntriesDescribe DEF ManifestMatchesTar
<1>. QED
  BY <1>2 DEF HashIgnoresOrder, HasRequirements, PackageIsDirectory

\* Writing or removing a file during the walk leaves tar file and manifest alone.
LEMMA ChangeKeeps == PackageInv /\ Change => PackageInv'
<1>. SUFFICES ASSUME PackageInv, Change PROVE PackageInv'
  OBVIOUS
<1>1. /\ walk = "walking" /\ changes' = changes + 1
      /\ UNCHANGED <<walk, dirs, listed, listing, current, tar, manifest, package>>
      /\ changes \in Nat
  BY DEF Change, PackageInv, PackageType
<1>2. changes' # 0
  BY <1>1
<1>3. tree' \in [Paths -> Contents \cup {NoFile}]
  BY DEF Change, PackageInv, PackageType
<1>4. PackageType'
  BY <1>1, <1>3 DEF PackageInv, PackageType
<1>5. Recorded' /\ OnePath' /\ WalkInv'
  BY <1>1 DEF PackageInv, Recorded, OnePath, WalkInv, Pending, Taken
<1>. QED
  BY <1>1, <1>2, <1>4, <1>5, StillWalking DEF PackageInv

\* Listing a directory keeps every file seen, added or still to be added.
LEMMA ListDirKeeps == PackageInv /\ ListDir => PackageInv'
<1>. SUFFICES ASSUME PackageInv, ListDir PROVE PackageInv'
  OBVIOUS
<1>1. /\ walk = "walking" /\ current = <<>> /\ listing = {}
      /\ UNCHANGED <<tree, changes, walk, current, tar, manifest, package>>
      /\ PackageType /\ Recorded /\ OnePath /\ WalkInv
      /\ changes = 0 => Untouched
  BY DEF ListDir, PackageInv
<1>2. PICK d \in dirs :
        /\ listing' = {p \in FilesIn(d) : p[2] \notin Excluded}
        /\ dirs' = (dirs \ {d}) \cup Pruned(DirsIn(d))
        /\ listed' = listed \cup {d}
  BY DEF ListDir
<1>3. /\ d \in {Root} \cup Dirs /\ dirs \subseteq {Root} \cup Dirs /\ listed \subseteq {Root} \cup Dirs
      /\ d \notin listed /\ dirs \cap listed = {}
  BY <1>1, <1>2 DEF PackageType, WalkInv
<1>4. \A p \in listing' : /\ p \in Paths /\ p[1] = d /\ d \notin Skipped
                           /\ tree[p] # NoFile /\ p[2] \notin Excluded
  BY <1>2 DEF FilesIn
<1>5. \A e \in Pruned(DirsIn(d)) : /\ e \in Dirs /\ Parent[e] = d /\ d \notin Skipped
                                   /\ e \notin Ignored /\ e \notin dirs \cup listed /\ e # d
  <2>1. ASSUME NEW e \in Pruned(DirsIn(d))
        PROVE  e \in Dirs /\ Parent[e] = d /\ d \notin Skipped /\ e \notin Ignored
    BY DEF Pruned, DirsIn
  <2>2. \A e \in Dirs : Parent[e] = d => e \notin dirs \cup listed
    BY <1>1, <1>3 DEF WalkInv
  <2>. QED
    BY <1>2, <2>1, <2>2
<1>6. PackageType'
  BY <1>1, <1>2, <1>3, <1>4, <1>5 DEF PackageType
<1>7. Recorded' /\ OnePath'
  BY <1>1 DEF Recorded, OnePath
<1>8. Pending = {} /\ Pending' = {} /\ Taken' = Taken
  BY <1>1 DEF Pending, Taken
<1>9. \A p \in Taken : p[1] \in listed \ Skipped /\ p[2] \notin Excluded
  BY <1>1 DEF WalkInv
<1>10. dirs' \cap listed' = {} /\ Root \in dirs' \cup listed'
  BY <1>1, <1>2, <1>3, <1>5 DEF WalkInv
<1>11. ASSUME NEW e \in Dirs
       PROVE  e \in dirs' \cup listed' <=> e \notin Ignored /\ Parent[e] \in listed' \ Skipped
  <2>1. e \in dirs \cup listed <=> e \notin Ignored /\ Parent[e] \in listed \ Skipped
    BY <1>1 DEF WalkInv
  <2>2. e \in Pruned(DirsIn(d)) <=> e \notin Ignored /\ Parent[e] = d /\ d \notin Skipped
    BY DEF Pruned, DirsIn
  <2>. QED
    BY <1>2, <1>3, <2>1, <2>2
<1>12. dirs' \cup listed' \subseteq Walked
  <2>1. d \in Walked /\ dirs \cup listed \subseteq Walked
    BY <1>1, <1>2 DEF WalkInv
  <2>2. ASSUME NEW e \in Pruned(DirsIn(d))
        PROVE  e \in Walked
    <3>1. e \in Dirs \ Ignored /\ Parent[e] = d /\ d \notin Skipped
      BY <1>5, <2>2
    <3>. QED
      BY <2>1, <3>1 DEF Walked, Reachable
  <2>. QED
    BY <1>2, <2>1, <2>2
<1>13. WalkInv'
  <2>1. Walked' = Walked
    OBVIOUS
  <2>2. \A p \in listing' : p \notin Taken
    BY <1>3, <1>4, <1>9
  <2>. QED
    BY <1>1, <1>2, <1>4, <1>8, <1>9, <1>10, <1>11, <1>12, <2>1, <2>2 DEF WalkInv
<1>14. ASSUME changes = 0
       PROVE  Untouched'
  <2>1. ASSUME NEW q \in Paths, tree[q] # NoFile, q[1] \in listed' \ Skipped, q[2] \notin Excluded
        PROVE  q \in listing' \cup Taken
    <3>1. CASE q[1] = d
      BY <1>2, <2>1, <3>1 DEF FilesIn
    <3>2. CASE q[1] # d
      BY <1>1, <1>2, <1>8, <1>14, <2>1, <3>2 DEF Untouched
    <3>. QED
      BY <3>1, <3>2
  <2>. QED
    BY <1>1, <1>4, <1>8, <1>14, <2>1 DEF Untouched
<1>. QED
  BY <1>1, <1>6, <1>7, <1>13, <1>14, StillWalking DEF PackageInv

\* A file that has been stated is added with the size it had, or the build fails.
LEMMA StatKeeps == PackageInv /\ Stat => PackageInv'
<1>. SUFFICES ASSUME PackageInv, Stat PROVE PackageInv'
  OBVIOUS
<1>1. /\ walk = "walking" /\ current = <<>>
      /\ UNCHANGED <<tree, changes, dirs, listed, tar, manifest, package>>
      /\ PackageType /\ Recorded /\ OnePath /\ WalkInv
      /\ changes = 0 => Untouched
  BY DEF Stat, PackageInv
<1>2. PICK p \in listing :
        /\ listing' = listing \ {p}
        /\ IF tree[p] = NoFile THEN Fail /\ UNCHANGED current
           ELSE current' = <<p, tree[p].size>> /\ UNCHANGED walk
  BY DEF Stat
<1>3. /\ p \in Paths /\ tree[p] \in Contents \cup {NoFile}
      /\ Pending = {} /\ Taken' = Taken
  BY <1>1, <1>2 DEF PackageType, WalkInv, Pending, Taken
<1>4. /\ walk' # "done" /\ (tree[p] # NoFile => tree[p].size \in Nat)
  BY <1>1, <1>2, <1>3, KeptOfContent DEF Fail
<1>5. /\ Pending' = {} /\ current' = <<>> /\ walk' = "failed"
      \/ /\ Pending' = {p} /\ current' = <<p, tree[p].size>> /\ tree[p] # NoFile /\ walk' = walk
  BY <1>1, <1>2 DEF Pending, Fail
<1>6. PackageType'
  BY <1>1, <1>2, <1>3, <1>4, <1>5 DEF PackageType
<1>7. Recorded' /\ OnePath'
  BY <1>1 DEF Recorded, OnePath
<1>8. WalkInv'
  BY <1>1, <1>2, <1>3, <1>5 DEF WalkInv
<1>9. changes = 0 /\ walk' = "walking" => Untouched'
  BY <1>1, <1>2, <1>3, <1>5 DEF Untouched
<1>. QED
  BY <1>1, <1>4, <1>6, <1>7, <1>8, <1>9, StillWalking DEF PackageInv
\* A file is added to tar file and manifest with the same bytes.
LEMMA AddFileKeeps == PackageInv /\ AddFile => PackageInv'
<1>. SUFFICES ASSUME PackageInv, AddFile PROVE PackageInv'
  OBVIOUS
<1>. DEFINE p == current[1]
            size == current[2]
            k == [tree[p] EXCEPT !.size = size]
            m == <<p, k>>
<1>1. /\ walk = "walking" /\ current # <<>> /\ current' = <<>>
      /\ UNCHANGED <<tree, changes, dirs, listed, listing, package>>
      /\ PackageType /\ Recorded /\ OnePath /\ WalkInv
      /\ changes = 0 => Untouched
  BY DEF AddFile, PackageInv
<1>2. /\ p \in Paths /\ size \in Nat /\ tree[p] \in Contents \cup {NoFile}
      /\ Pending = {p} /\ Pending' = {} /\ p \notin Taken
      /\ tar \in Seq(Members) /\ manifest \in Seq(Entries)
      /\ Len(tar) \in Nat /\ Len(manifest) = Len(tar)
  BY <1>1 DEF PackageType, WalkInv, Pending, Recorded
<1>3. CASE tree[p] = NoFile \/ tree[p].size < size
  <2>1. walk' = "failed" /\ UNCHANGED <<tar, manifest>>
    BY <1>3 DEF AddFile, Fail
  <2>2. PackageType' /\ Recorded' /\ OnePath'
    BY <1>1, <2>1 DEF PackageType, Recorded, OnePath
  <2>3. WalkInv'
    BY <1>1, <1>2, <2>1 DEF WalkInv, Taken
  <2>. QED
    BY <2>1, <2>2, <2>3, StillWalking DEF PackageInv
<1>4. CASE ~(tree[p] = NoFile \/ tree[p].size < size)
  <2>1. tar' = Append(tar, m) /\ manifest' = Append(manifest, Entry(m)) /\ walk' = walk
    <3>1. m[2].size = size
      BY <1>2, <1>4, KeptOfContent
    <3>. QED
      BY <1>4, <3>1 DEF AddFile, Hash, Entry
  <2>2. m \in Members /\ Entry(m) \in Entries
    <3>1. k \in Kept /\ k.size = size
      BY <1>2, <1>4, KeptOfContent
    <3>. HIDE DEF k
    <3>. QED
      BY <1>2, <3>1 DEF Members, Entries, Entry
  <2>. HIDE DEF m
  <2>3. /\ tar' \in Seq(Members) /\ manifest' \in Seq(Entries)
        /\ Len(tar') = Len(tar) + 1 /\ Len(manifest') = Len(tar) + 1
        /\ tar'[Len(tar) + 1] = m /\ manifest'[Len(tar) + 1] = Entry(m)
        /\ \A i \in 1 .. Len(tar) : tar'[i] = tar[i] /\ manifest'[i] = manifest[i]
    BY <1>2, <2>1, <2>2, AppendProperties
  <2>4. \A i \in 1 .. Len(tar') : i \in 1 .. Len(tar) \/ i = Len(tar) + 1
    BY <1>2, <2>3
  <2>5. m[1] = p
    BY DEF m
  <2>6. PackageType'
    BY <1>1, <2>1, <2>3 DEF PackageType
  <2>7. Recorded'
    BY <1>1, <1>2, <2>3, <2>4 DEF Recorded
  <2>8. \A i \in 1 .. Len(tar) : tar[i][1] # p
    BY <1>2 DEF Taken
  <2>9. OnePath'
    BY <1>1, <2>3, <2>4, <2>5, <2>8 DEF OnePath
  <2>10. Taken' = Taken \cup {p}
    <3>1. 1 .. Len(tar') = (1 .. Len(tar)) \cup {Len(tar) + 1}
      BY <1>2, <2>3
    <3>. QED
      BY <2>3, <2>5, <3>1 DEF Taken
  <2>11. WalkInv'
    BY <1>1, <1>2, <2>10 DEF WalkInv
  <2>12. changes = 0 => Untouched'
    <3>1. changes = 0 => m[2] = tree[p]
      BY <1>1, <1>2, <1>4, KeptOfContent DEF Untouched, m
    <3>2. changes = 0 => \A i \in 1 .. Len(tar') : tree[tar'[i][1]] = tar'[i][2]
      BY <1>1, <2>3, <2>4, <2>5, <3>1 DEF Untouched
    <3>. QED
      BY <1>1, <1>2, <2>10, <3>2 DEF Untouched
  <2>. QED
    BY <1>1, <2>1, <2>6, <2>7, <2>9, <2>11, <2>12, StillWalking DEF PackageInv
<1>. QED
  BY <1>3, <1>4

\* Closing the package sorts the manifest and tells of every file in the tar file.
LEMMA FinishKeeps == PackageInv /\ Finish => PackageInv'
<1>. SUFFICES ASSUME PackageInv, Finish PROVE PackageInv'
  OBVIOUS
<1>. DEFINE p == <<Root, Requirements>>
            add == ~ \E i \in DOMAIN manifest : IsSpec(manifest[i].path)
            m == <<p, Frozen>>
            es == manifest \o IF add THEN <<Entry(m)>> ELSE <<>>
<1>1. /\ walk = "walking" /\ current = <<>> /\ listing = {} /\ dirs = {} /\ walk' = "done"
      /\ UNCHANGED <<tree, changes, dirs, listed, listing, current>>
      /\ PackageType /\ Recorded /\ OnePath /\ WalkInv
      /\ changes = 0 => Untouched
  BY DEF Finish, PackageInv
<1>2. /\ tar' = tar \o IF add THEN <<m>> ELSE <<>>
      /\ manifest' = Sorted(es)
      /\ package'.hash = [i \in DOMAIN manifest' |-> <<manifest'[i].path, manifest'[i].hash>>]
  BY DEF Finish, Entry
<1>3. /\ p \in Paths /\ m \in Members /\ Entry(m) \in Entries /\ m[1] = p
      /\ IsSpec(p) /\ p[1] = Root /\ p[2] \in Specs
  BY PackageAssumption, KeptOfContent, KeptSize DEF Paths, Members, Entries, Entry, IsSpec
<1>4. /\ tar \in Seq(Members) /\ manifest \in Seq(Entries)
      /\ Len(tar) \in Nat /\ Len(manifest) = Len(tar)
      /\ \A i \in 1 .. Len(tar) : manifest[i] = Entry(tar[i]) /\ manifest[i].path = tar[i][1]
  BY <1>1 DEF PackageType, Recorded, Entry
<1>5. add => \A i \in 1 .. Len(tar) : tar[i][1] # p
  <2>1. ASSUME NEW i \in 1 .. Len(tar), tar[i][1] = p
        PROVE  ~add
    <3>1. i \in DOMAIN manifest /\ manifest[i].path = p
      BY <1>4, <2>1
    <3>. HIDE DEF p
    <3>. QED
      BY <1>3, <3>1
  <2>. HIDE DEF add, p
  <2>. QED
    BY <2>1
<1>. HIDE DEF m, p
<1>6. /\ tar' \in Seq(Members) /\ es \in Seq(Entries) /\ Len(es) = Len(tar')
      /\ \A i \in 1 .. Len(tar') : es[i] = Entry(tar'[i]) /\ es[i].path = tar'[i][1]
      /\ \A i \in 1 .. Len(tar) : i \in 1 .. Len(tar') /\ tar'[i] = tar[i]
      /\ Len(tar') = IF add THEN Len(tar) + 1 ELSE Len(tar)
      /\ add => tar'[Len(tar) + 1] = m
  <2>1. CASE ~add
    <3>1. tar' = tar /\ es = manifest
      BY <1>2, <1>4, <2>1
    <3>. QED
      BY <1>4, <2>1, <3>1
  <2>2. CASE add
    <3>. HIDE DEF add
    <3>1. tar' = Append(tar, m) /\ es = Append(manifest, Entry(m))
      BY <1>2, <1>4, <2>2
    <3>. HIDE DEF es
    <3>2. /\ tar' \in Seq(Members) /\ es \in Seq(Entries)
          /\ Len(tar') = Len(tar) + 1 /\ Len(es) = Len(tar) + 1
          /\ tar'[Len(tar) + 1] = m /\ es[Len(tar) + 1] = Entry(m)
          /\ \A i \in 1 .. Len(tar) : tar'[i] = tar[i] /\ es[i] = manifest[i]
      BY <1>3, <1>4, <3>1, AppendProperties
    <3>3. \A i \in 1 .. Len(tar') : i \in 1 .. Len(tar) \/ i = Len(tar) + 1
      BY <1>4, <3>2
    <3>4. Entry(m).path = m[1]
      BY DEF Entry
    <3>. QED
      BY <1>4, <2>2, <3>2, <3>3, <3>4
  <2>. QED
    BY <2>1, <2>2
<1>7. \A i, j \in 1 .. Len(tar') : tar'[i][1] = tar'[j][1] => i = j
  <2>1. \A i \in 1 .. Len(tar') : i \in 1 .. Len(tar) \/ (add /\ i = Len(tar) + 1)
    BY <1>4, <1>6
  <2>. HIDE DEF add
  <2>. QED
    BY <1>1, <1>3, <1>5, <1>6, <2>1 DEF OnePath
<1>8. /\ manifest' \in Seq(Entries) /\ ToSet(manifest') = ToSet(es)
      /\ \A i, j \in 1 .. Len(manifest') : i < j => PathLess(manifest'[i].path, manifest'[j].path)
  <2>. HIDE DEF es
  <2>1. es \in Seq(Entries) /\ \A i, j \in 1 .. Len(es) : es[i].path = es[j].path => i = j
    BY <1>6, <1>7
  <2>. QED
    BY <1>2, <2>1, SortedManifest
<1>9. PackageType'
  BY <1>1, <1>6, <1>8 DEF PackageType
<1>10. ManifestMatchesTar'
  <2>. HIDE DEF es
  <2>. QED
    BY <1>6, <1>8, EntriesDescribe DEF ManifestMatchesTar
<1>11. HashIgnoresOrder'
  <2>1. DOMAIN manifest' = 1 .. Len(manifest')
    BY <1>8
  <2>2. /\ DOMAIN package'.hash = 1 .. Len(manifest')
        /\ \A i \in 1 .. Len(manifest') : package'.hash[i][1] = manifest'[i].path
    BY <1>2, <2>1
  <2>. QED
    BY <1>8, <2>2 DEF HashIgnoresOrder
<1>12. \A i \in 1 .. Len(tar') : i \in DOMAIN tar' /\ tar'[i] \in ToSet(tar')
  BY <1>6 DEF ToSet
<1>13. \A x \in ToSet(tar') : \E i \in 1 .. Len(tar') : x = tar'[i]
  BY <1>6 DEF ToSet
<1>14. HasRequirements'
  <2>1. \E i \in 1 .. Len(tar') : tar'[i][1][1] = Root /\ tar'[i][1][2] \in Specs
    <3>1. CASE add
      <4>1. Len(tar) + 1 \in 1 .. Len(tar')
        BY <1>4, <1>6, <3>1
      <4>. QED
        BY <1>3, <1>6, <3>1, <4>1
    <3>2. CASE ~add
      BY <1>4, <1>6, <3>2 DEF IsSpec
    <3>. QED
      BY <3>1, <3>2
  <2>2. DOMAIN tar' = 1 .. Len(tar')
    BY <1>6
  <2>. QED
    BY <1>7, <1>12, <2>1, <2>2 DEF HasRequirements
<1>15. ASSUME changes = 0
       PROVE  {x \in ToSet(tar') : tree[x[1]] # NoFile} =
                {<<q, tree[q]>> : q \in {r \in Paths : tree[r] # NoFile /\ r[1] \in Walked \ Skipped
                                                       /\ r[2] \notin Excluded}}
  <2>0. listed = Walked
    <3>1. Reachable(listed) /\ listed \in SUBSET ({Root} \cup Dirs)
      BY <1>1 DEF WalkInv, Reachable, PackageType
    <3>2. Walked \subseteq listed
      BY <3>1 DEF Walked
    <3>. QED
      BY <1>1, <3>2 DEF WalkInv
  <2>1. /\ \A q \in Paths : tree[q] # NoFile /\ q[1] \in Walked \ Skipped /\ q[2] \notin Excluded
                            => q \in Taken
        /\ \A i \in 1 .. Len(tar) : tree[tar[i][1]] = tar[i][2]
    BY <1>1, <1>15, <2>0 DEF Untouched, Pending
  <2>2. \A q \in Taken : q[1] \in Walked \ Skipped /\ q[2] \notin Excluded
    BY <1>1, <2>0 DEF WalkInv
  <2>3. \A i \in 1 .. Len(tar) : tar[i] = <<tar[i][1], tar[i][2]>> /\ tar[i][1] \in Paths
                                 /\ tar[i][1] \in Taken
    BY <1>4 DEF Members, Taken
  <2>4. add => tree[p] = NoFile
    <3>1. add => p \notin Taken
      BY <1>5 DEF Taken
    <3>2. p[1] \in Walked \ Skipped /\ p[2] \notin Excluded
      BY PackageAssumption DEF p, Walked, Reachable
    <3>. QED
      BY <1>3, <2>1, <3>1, <3>2
  <2>5. ASSUME NEW x \in ToSet(tar'), tree[x[1]] # NoFile
        PROVE  \E i \in 1 .. Len(tar) : x = tar[i]
    <3>1. PICK i \in 1 .. Len(tar') : x = tar'[i]
      BY <1>13
    <3>2. i \in 1 .. Len(tar) \/ (add /\ i = Len(tar) + 1)
      BY <1>4, <1>6
    <3>. HIDE DEF add
    <3>. QED
      BY <1>3, <1>6, <2>4, <2>5, <3>1, <3>2
  <2>6. \A q \in Taken : <<q, tree[q]>> \in ToSet(tar')
    <3>1. ASSUME NEW i \in 1 .. Len(tar)
          PROVE  <<tar[i][1], tree[tar[i][1]]>> \in ToSet(tar')
      <4>1. tar'[i] = <<tar[i][1], tree[tar[i][1]]>> /\ i \in 1 .. Len(tar')
        BY <1>6, <2>1, <2>3
      <4>. QED
        BY <1>12, <4>1
    <3>. QED
      BY <3>1 DEF Taken
  <2>. DEFINE Whole == {r \in Paths : tree[r] # NoFile /\ r[1] \in Walked \ Skipped /\ r[2] \notin Excluded}
  <2>7. ASSUME NEW x \in ToSet(tar'), tree[x[1]] # NoFile
        PROVE  \E q \in Whole : x = <<q, tree[q]>>
    <3>1. PICK i \in 1 .. Len(tar) : x = tar[i]
      BY <2>5, <2>7
    <3>2. x = <<tar[i][1], tree[tar[i][1]]>> /\ tar[i][1] \in Whole
      BY <2>1, <2>2, <2>3, <2>7, <3>1
    <3>. QED
      BY <3>2
  <2>8. ASSUME NEW q \in Whole
        PROVE  <<q, tree[q]>> \in {x \in ToSet(tar') : tree[x[1]] # NoFile}
    BY <2>1, <2>6
  <2>. HIDE DEF Whole
  <2>9. {x \in ToSet(tar') : tree[x[1]] # NoFile} = {<<q, tree[q]>> : q \in Whole}
    BY <2>7, <2>8
  <2>. QED
    BY <2>9 DEF Whole
<1>16. PackageIsDirectory'
  BY <1>1, <1>15 DEF PackageIsDirectory
<1>. QED
  BY <1>1, <1>9, <1>10, <1>11, <1>14, <1>16 DEF PackageInv

\* The package is built by one part of the command, from where it starts.
LEMMA PackageSafe == Spec => []PackageInv
<1>1. Init => PackageInv
  BY PackageStart DEF Init
<1>2. PackageInv /\ [Next]_<<gateVars, packageVars>> => PackageInv'
  <2>1. CASE PackageInv /\ PackageNext
    BY <2>1, ChangeKeeps, ListDirKeeps, StatKeeps, AddFileKeeps, FinishKeeps DEF PackageNext
  <2>2. ASSUME PackageInv, UNCHANGED packageVars
        PROVE  PackageInv'
    <3>1. Walked' = Walked
      OBVIOUS
    <3>2. PackageType' /\ (walk' # "done" => Recorded' /\ OnePath' /\ WalkInv')
      BY <2>2, <3>1 DEF packageVars, PackageInv, PackageType, Recorded, OnePath, WalkInv, Taken, Pending
    <3>3. walk' = "walking" /\ changes' = 0 => Untouched'
      BY <2>2 DEF packageVars, PackageInv, Untouched, Taken, Pending
    <3>4. ManifestMatchesTar' /\ HashIgnoresOrder' /\ HasRequirements' /\ PackageIsDirectory'
      BY <2>2, <3>1 DEF packageVars, PackageInv, ManifestMatchesTar, HashIgnoresOrder, HasRequirements,
         PackageIsDirectory
    <3>. QED
      BY <3>2, <3>3, <3>4 DEF PackageInv
  <2>. QED
    BY <2>1, <2>2 DEF Next
<1>. QED
  BY <1>1, <1>2, PTL DEF Spec

\* For every directory, every order of the walk and any number of changes that
\* are made to files meanwhile, the manifest describes the tar file.
THEOREM ManifestDescribesTar == Spec => []ManifestMatchesTar
BY PackageSafe, PTL DEF PackageInv

\* The hash of a finished package is over entries in the order of their paths,
\* each path once: it does not depend on the order of the walk.
THEOREM HashIsOfContents == Spec => []HashIgnoresOrder
BY PackageSafe, PTL DEF PackageInv

\* A finished package names its requirements at the top and has no two members
\* of one path.
THEOREM RequirementsPackaged == Spec => []HasRequirements
BY PackageSafe, PTL DEF PackageInv

\* A directory nobody touches is packaged whole, at every depth, but for what is
\* ignored and what cannot be read.
THEOREM DirectoryPackaged == Spec => []PackageIsDirectory
BY PackageSafe, PTL DEF PackageInv
=============================================================================
