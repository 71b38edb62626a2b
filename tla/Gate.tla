-------------------------------- MODULE Gate --------------------------------
(***************************************************************************)
(* The local half of `dlt matterbeam deploy` up to its first upload: the   *)
(* script is executed up to Pipeline.run three times, all in this process  *)
(* (by the command's run_gate, by the one in open_collector_pipeline, and  *)
(* for the open pipeline itself), then the pipeline is registered and the  *)
(* secrets of its last local run are recovered.                            *)
(*                                                                         *)
(* A script is a sequence of statements.  Executing one for real would be  *)
(* Pipeline.run's doing, or that of extract, normalize and load, which the *)
(* harness does not patch.  A pipeline keeps its state in the directory it *)
(* is given, and otherwise under DLT_DATA_DIR.  The user may edit the file *)
(* in the meantime.                                                        *)
(***************************************************************************)
EXTENDS Ordering, SequencesExt

CONSTANTS
  Scripts,   \* what the file may hold: sequences of records [op, name, dest,
             \* dir, literal, guarded], op one of "pipeline", "run", "load" and
             \* "raise"; literal: name and dir can be read off the text
  Ran,       \* the pipelines that have run locally before: <<name, directory>>
  Default,   \* the name dlt.attach takes when it is given none
  MaxEdits,  \* bound on how often the file is edited
  None

ASSUME GateAssumption == MaxEdits \in Nat /\ None # "user"
ASSUME ScriptsAssumption ==
  \A s \in Scripts : /\ s \in Seq(ToSet(s))
                     /\ \A i \in DOMAIN s : /\ s[i].guarded \in BOOLEAN
                                            /\ s[i].literal \in BOOLEAN
                                            /\ s[i].dir \notin {"user", "temporary"}
                                            /\ None # [name |-> s[i].name, dest |-> s[i].dest,
                                                       dir |-> s[i].dir]

VARIABLES
  file,       \* the script on disk
  edits,      \* edits so far
  call,       \* where the command is
  harness,    \* "off", or the script "runs", or the caller's "body" does
  script, at, \* what the harness executes, and its next statement
  patched,    \* Pipeline.run is replaced
  dataDir,    \* DLT_DATA_DIR: the user's or a temporary one
  active,     \* the active pipeline, or None
  checked,    \* history: the script the gate let through last, or None
  contacts,   \* history: what was done for real, how and by which pipeline
  registered, \* the pipeline that was registered, or None
  secrets     \* whose secrets were recovered, and from where, or None

gateVars == <<file, edits, call, harness, script, at, patched, dataDir, active,
              checked, contacts, registered, secrets>>

Pipeline(name, dest, dir) == [name |-> name, dest |-> dest, dir |-> dir]

\* PipelineContext.pipeline() makes a default pipeline when none is active.
Opened == IF active = None THEN Pipeline(Default, None, None) ELSE active

\* Where a pipeline keeps its state.
Where(dir) == IF dir = None THEN dataDir ELSE dir

GateInit ==
  /\ file \in Scripts /\ edits = 0
  /\ call = "run_gate"
  /\ harness = "off" /\ script = <<>> /\ at = 0
  /\ patched = FALSE /\ dataDir = "user" /\ active = None
  /\ checked = None /\ contacts = {} /\ registered = None /\ secrets = None

Edit ==
  /\ edits < MaxEdits /\ edits' = edits + 1
  /\ \E s \in Scripts \ {file} : file' = s
  /\ UNCHANGED <<call, harness, script, at, patched, dataDir, active, checked,
                 contacts, registered, secrets>>

-----------------------------------------------------------------------------
(* _run_intercepted                                                        *)

DirDuringRun_User == "user"
DirDuringRun == "temporary"

\* Pipeline.run is patched and DLT_DATA_DIR set; the file is read now.
Enter ==
  /\ call \in {"run_gate", "gate_again", "open"} /\ harness = "off"
  /\ harness' = "runs" /\ script' = file /\ at' = 1
  /\ patched' = TRUE /\ dataDir' = DirDuringRun /\ active' = None
  /\ UNCHANGED <<file, edits, call, checked, contacts, registered, secrets>>

Restored_UnlessRaised(raised) ==
  IF raised THEN UNCHANGED <<patched, dataDir, active>>
  ELSE patched' = FALSE /\ dataDir' = "user" /\ active' = None

\* The finally clause, after the body, an exception of it or of the script.
Restored(raised) == patched' = FALSE /\ dataDir' = "user" /\ active' = None

Leave(next, raised) ==
  /\ harness' = "off" /\ call' = next
  /\ Restored(raised)
  /\ UNCHANGED <<file, edits, script, at, contacts, secrets>>

Statement == script[at]
Running(op) == harness = "runs" /\ at <= Len(script) /\ Statement.op = op

\* A constructor activates its pipeline.
Construct ==
  /\ Running("pipeline") /\ Statement.dest # "unknown"
  /\ active' = Pipeline(Statement.name, Statement.dest, Statement.dir)
  /\ at' = at + 1
  /\ UNCHANGED <<file, edits, call, harness, script, patched, dataDir, checked, contacts,
                 registered, secrets>>

\* UnknownDestinationModule, which the gate reports, or another exception.
Raise ==
  /\ Running("raise") \/ (Running("pipeline") /\ Statement.dest = "unknown")
  /\ Leave("failed", TRUE) /\ UNCHANGED <<checked, registered>>

Contacted(how) == [how |-> how, pipeline |-> <<Opened.name, Where(Opened.dir)>>]

\* Pipeline.run: _RunIntercepted stops the script, unless that catches it.
RunPipeline ==
  /\ Running("run")
  /\ IF patched THEN UNCHANGED contacts
     ELSE contacts' = contacts \cup {Contacted("run")}
  /\ IF patched /\ ~Statement.guarded THEN harness' = "body" /\ UNCHANGED at
     ELSE at' = at + 1 /\ UNCHANGED harness
  /\ active' = Opened
  /\ UNCHANGED <<file, edits, call, script, patched, dataDir, checked, registered, secrets>>

\* extract, normalize and load, called by the script itself.
LoadDirectly ==
  /\ Running("load")
  /\ contacts' = contacts \cup {Contacted("load")}
  /\ active' = Opened /\ at' = at + 1
  /\ UNCHANGED <<file, edits, call, harness, script, patched, dataDir, checked,
                 registered, secrets>>

ScriptEnds ==
  /\ harness = "runs" /\ at > Len(script)
  /\ harness' = "body"
  /\ UNCHANGED <<file, edits, call, script, at, patched, dataDir, active, checked,
                 contacts, registered, secrets>>

-----------------------------------------------------------------------------
(* run_gate and gather_deploy_info                                         *)

\* The first pipeline of the script instead of the active one.
Outcome_First ==
  LET made == Picked(script, {i \in DOMAIN script : script[i].op = "pipeline"})
  IN IF made = <<>> THEN "no_pipeline"
     ELSE IF made[1].dest = None THEN "no_destination"
     ELSE IF made[1].dest = "matterbeam" THEN "collector" ELSE "not_matterbeam"

\* inspect_destination looks at the pipeline that is active in the end.
Outcome ==
  IF active = None THEN "no_pipeline"
  ELSE IF active.dest = None THEN "no_destination"
  ELSE IF active.dest = "matterbeam" THEN "collector" ELSE "not_matterbeam"

After == [run_gate |-> "gate_again", gate_again |-> "open"]

\* run_gate returns for a collector and raises MatterbeamGateError otherwise.
Inspect ==
  /\ harness = "body" /\ call \in DOMAIN After
  /\ Leave(IF Outcome = "collector" THEN After[call] ELSE "failed", FALSE)
  /\ checked' = IF Outcome = "collector" THEN script ELSE checked
  /\ UNCHANGED registered

\* gather_deploy_info and register_hosted_pid, unless no matterbeam_url is
\* configured or the request fails.
Gather ==
  /\ harness = "body" /\ call = "open"
  /\ \/ Leave("recover", FALSE) /\ registered' = Opened
     \/ Leave("failed", FALSE) /\ UNCHANGED registered
  /\ UNCHANGED checked

\* The calls of dlt.pipeline in the script's text.
PipelineCalls == Picked(file, {i \in DOMAIN file : file[i].op = "pipeline"})

\* parse_pipeline_info gives up altogether on a name or directory it cannot
\* read off the text, and recover_secrets goes on as if there were no pipeline.
PossiblePipelines ==
  IF \A i \in DOMAIN PipelineCalls : PipelineCalls[i].literal THEN PipelineCalls ELSE <<>>

Located_NoDir ==
  [name |-> IF PossiblePipelines = <<>> THEN Default ELSE PossiblePipelines[1].name,
   dir |-> None]
Located ==
  IF PossiblePipelines = <<>> THEN [name |-> Default, dir |-> None]
  ELSE [name |-> PossiblePipelines[1].name, dir |-> PossiblePipelines[1].dir]

\* Pipelines with a local run, those of this command's executions included.
HaveRun == Ran \cup {c.pipeline : c \in contacts}

\* recover_secrets attaches to the local state of that pipeline, and raises
\* when it has never run; the registration stays as it is.
RecoverSecrets ==
  /\ call = "recover"
  /\ LET found == <<Located.name, Where(Located.dir)>>
     IN IF found \in HaveRun
        THEN /\ secrets' = found
             /\ active' = Pipeline(Located.name, None, Located.dir)
             /\ call' = "package"
        ELSE call' = "failed" /\ UNCHANGED <<secrets, active>>
  /\ UNCHANGED <<file, edits, harness, script, at, patched, dataDir, checked, contacts,
                 registered>>

GateNext ==
  \/ Edit \/ Enter \/ Construct \/ Raise \/ RunPipeline \/ LoadDirectly \/ ScriptEnds
  \/ Inspect \/ Gather \/ RecoverSecrets

GateSpec == GateInit /\ [][GateNext]_gateVars

-----------------------------------------------------------------------------
(* Properties                                                              *)

\* However a script or the gate ends, the process is left as it was found:
\* Pipeline.run is dlt's own again and DLT_DATA_DIR the user's.
ProcessIsRestored == harness = "off" => ~patched /\ dataDir = "user"

\* No run of a pipeline happens for real while scripts are inspected, also
\* when a script catches the interception and goes on.  What it loads by itself
\* leaves the user's DLT_DATA_DIR alone: its pipeline's state is in the
\* temporary directory or where the script itself puts it.
RunIsIntercepted == \A c \in contacts : c.how = "load" /\ c.pipeline[2] # "user"

\* The third execution is not inspected; if the file then holds what the gate
\* let through last, a pipeline with destination matterbeam is registered.
OnlyCollectors == registered # None /\ script = checked => registered.dest = "matterbeam"

\* A script whose text names one pipeline gets the secrets of the pipeline it
\* registers, from the directory that pipeline names or the user's own.
SecretsOfSole ==
  secrets # None /\ edits = 0 /\ Len(PossiblePipelines) = 1 =>
    secrets = <<registered.name, IF registered.dir = None THEN "user" ELSE registered.dir>>

\* "the gate already established exactly one collector pipeline exists in this
\* script, so the first hit recovered by AST is the one we want": the secrets
\* are those of the pipeline that is registered.
SecretsOfDeployed == secrets # None /\ edits = 0 => secrets[1] = registered.name
=============================================================================
