------------------------------- MODULE Deploy -------------------------------
(***************************************************************************)
(* `dlt matterbeam deploy`: the requests deploy() makes one after the      *)
(* other, the service's side of them (registration, secrets, uploads,      *)
(* build status; each under the service's mutex), pipelines that register  *)
(* from their own runs, and the builder.  No request is retried: whatever  *)
(* goes wrong, before or after the service has acted, ends the command,    *)
(* and it is up to the user to deploy again.                               *)
(*                                                                         *)
(* The builder is not in this repository.  It builds what is uploaded for  *)
(* a pid, one build at a time, and reports ready or failed for the last    *)
(* build that was triggered, or never reports at all.                      *)
(***************************************************************************)
EXTENDS Naturals

CONSTANTS
  Deployers,   \* users who deploy, each from a directory of their own
  Pipelines,   \* registration keys: pipeline name and dataset name
  PipelineOf,  \* the pipeline a deployer's script defines
  Packages,    \* content hashes of packages
  PackageOf,   \* what build_package makes of the deployer's directory
  Secrets,     \* names of secrets
  Credentials, \* the secrets of destinations
  TraceOf,     \* the secrets in the trace of the deployer's last local run
  LocalOf,     \* those the deployer's directory has a value of
  Configured,  \* deployers whose directory itself names matterbeam_url, and
               \* not only their script
  Pids, None,
  MaxPolls,    \* poll_max_attempts, 5 in the code (0 skips polling)
  MaxRuns      \* bound on how often a user deploys

ASSUME DeployersAssumption ==
  /\ PipelineOf \in [Deployers -> Pipelines]
  /\ PackageOf \in [Deployers -> Packages]
  /\ TraceOf \in [Deployers -> SUBSET Secrets]
  /\ LocalOf \in [Deployers -> SUBSET Secrets]
  /\ Configured \subseteq Deployers
ASSUME PidsAssumption == None \notin Pids \cup Packages
ASSUME PollsAssumption == MaxPolls \in Nat \ {0} /\ MaxRuns \in Nat

VARIABLES
  registry,  \* pid of each registered pipeline
  kind,      \* collector_type of each pid
  stored,    \* the secrets stored for each pid: the submission each name's
             \* value is from, 0 for a name without a value
  uploads,   \* upload URLs not used yet: deployer, run and pid
  uploaded,  \* uploaded_packages, each with the submission of its deploy
  build,     \* build_status of each pid
  built,     \* the package of a pid's last finished build
  builds,    \* history: builds triggered so far, per pid
  submits,   \* history: submissions of secrets so far, per pid
  step,      \* the request deploy() is at
  run,       \* how often the user has deployed
  pid,       \* what register_hosted_pid returned
  mark,      \* history: number of the build the deployer triggered
  sent,      \* history: number of the deployer's submission, until it is uploaded
  polls,     \* polls made
  report     \* the last poll: status, package and number of the build it saw,
             \* and the hash the command shows for it

serverVars == <<registry, kind, stored, uploads, uploaded, build, built, builds, submits>>
clientVars == <<step, run, pid, mark, sent, polls, report>>
vars == <<serverVars, clientVars>>

NoReport == [status |-> "none", package |-> None, build |-> 0, shown |-> None]

Init ==
  /\ registry = [k \in Pipelines |-> None]
  /\ kind = [p \in Pids |-> "none"]
  /\ stored = [p \in Pids |-> [s \in Secrets |-> 0]]
  /\ uploads = {}
  /\ uploaded = [p \in Pids |-> [package |-> None, submission |-> 0]]
  /\ build = [p \in Pids |-> "never_built"]
  /\ built = [p \in Pids |-> [package |-> None, submission |-> 0, build |-> 0]]
  /\ builds = [p \in Pids |-> 0]
  /\ submits = [p \in Pids |-> 0]
  /\ step = [d \in Deployers |-> "idle"]
  /\ run = [d \in Deployers |-> 0]
  /\ pid = [d \in Deployers |-> None]
  /\ mark = [d \in Deployers |-> 0]
  /\ sent = [d \in Deployers |-> 0]
  /\ polls = [d \in Deployers |-> 0]
  /\ report = [d \in Deployers |-> NoReport]

-----------------------------------------------------------------------------
(* Registration, for deploys and for pipelines that run by themselves      *)

Claimed_Never(k) == FALSE

\* The claim of the pipeline's key has been made, by whoever was first.
Claimed(k) == registry[k] # None

Fresh == Pids \ {registry[k] : k \in Pipelines}

\* register(): lookup or create; a hosted claim adopts an external collector.
\* p is the pid it answers with.
Register(k, type, p) ==
  \/ /\ Claimed(k) /\ p = registry[k]
     /\ kind' = IF type = "hosted_dlt" THEN [kind EXCEPT ![p] = type] ELSE kind
     /\ UNCHANGED registry
  \/ /\ ~Claimed(k) /\ p \in Fresh
     /\ registry' = [registry EXCEPT ![k] = p]
     /\ kind' = [kind EXCEPT ![p] = type]

\* A pipeline registers from its own run, through HttpTransport.
RunRegisters(k) ==
  /\ \E p \in Pids : Register(k, "external_dlt", p)
  /\ UNCHANGED <<stored, uploads, uploaded, build, built, builds, submits, clientVars>>

-----------------------------------------------------------------------------
(* The deploy command                                                      *)

After_BuildFirst ==
  [register |-> "secrets", secrets |-> "url", url |-> "trigger",
   trigger |-> "upload", upload |-> "poll"]

After_SecretsLast ==
  [register |-> "url", url |-> "upload", upload |-> "trigger",
   trigger |-> "secrets", secrets |-> "poll"]

After_NewUrl ==
  [register |-> "secrets", secrets |-> "url", url |-> "upload",
   upload |-> "url", trigger |-> "poll"]

\* The order of the requests in deploy().
After ==
  [register |-> "secrets", secrets |-> "url", url |-> "upload",
   upload |-> "trigger", trigger |-> "poll"]

\* The request of d's step has been answered, or deploy() stops there.
GoOn(d) == step' = [step EXCEPT ![d] = After[step[d]]]
Stop(d) == step' = [step EXCEPT ![d] = "failed"]

\* The user runs the command, for the first time or again.
Deploy(d) ==
  /\ step[d] \in {"idle", "done", "failed"} /\ run[d] < MaxRuns
  /\ run' = [run EXCEPT ![d] = @ + 1]
  /\ polls' = [polls EXCEPT ![d] = 0]
  /\ report' = [report EXCEPT ![d] = NoReport]
  /\ mark' = [mark EXCEPT ![d] = 0]
  /\ sent' = [sent EXCEPT ![d] = 0]
  /\ pid' = [pid EXCEPT ![d] = None]
  /\ step' = [step EXCEPT ![d] = "register"]
  /\ UNCHANGED serverVars

\* register_hosted_pid.
RegisterHosted(d) ==
  /\ step[d] = "register"
  /\ \E p \in Pids :
       /\ Register(PipelineOf[d], "hosted_dlt", p)
       /\ \/ GoOn(d) /\ pid' = [pid EXCEPT ![d] = p]
          \/ Stop(d) /\ UNCHANGED pid
  /\ UNCHANGED <<stored, uploads, uploaded, build, built, builds, submits,
                 run, mark, sent, polls, report>>

\* recover_secrets: what the trace names, but no destination's credentials and
\* not what has no value here, of which the user is only warned.
Recovered(d) == (TraceOf[d] \ Credentials) \cap LocalOf[d]

Merged_KeepsOld(p, d) ==
  [s \in Secrets |->
     IF s \in Recovered(d) /\ stored[p][s] = 0 THEN submits[p] + 1 ELSE stored[p][s]]

\* What is stored for p after d's submission: its values replace those of the
\* same name, the others stay.
Merged(p, d) ==
  [s \in Secrets |-> IF s \in Recovered(d) THEN submits[p] + 1 ELSE stored[p][s]]

\* recover_secrets and submit_secrets; without secrets there is no request,
\* and nothing to store.
SubmitSecrets(d) ==
  /\ step[d] = "secrets"
  /\ stored' = [stored EXCEPT ![pid[d]] = Merged(pid[d], d)]
  /\ submits' = [submits EXCEPT ![pid[d]] = @ + 1]
  /\ sent' = [sent EXCEPT ![d] = submits[pid[d]] + 1]
  /\ GoOn(d) \/ Stop(d)
  /\ UNCHANGED <<registry, kind, uploads, uploaded, build, built, builds,
                 run, pid, mark, polls, report>>

\* create_upload_url.
CreateUploadUrl(d) ==
  /\ step[d] = "url"
  /\ uploads' = uploads \cup {<<d, run[d], pid[d]>>}
  /\ GoOn(d) \/ Stop(d)
  /\ UNCHANGED <<registry, kind, stored, uploaded, build, built, builds, submits,
                 run, pid, mark, sent, polls, report>>

\* upload_package: the URL is used up and names the pid.
UploadPackage(d) ==
  /\ step[d] = "upload"
  /\ \E u \in uploads :
       /\ u[1] = d /\ u[2] = run[d]
       /\ uploads' = uploads \ {u}
       /\ uploaded' = [uploaded EXCEPT ![u[3]] = [package |-> PackageOf[d], submission |-> sent[d]]]
  /\ sent' = [sent EXCEPT ![d] = 0]
  /\ GoOn(d) \/ Stop(d)
  /\ UNCHANGED <<registry, kind, stored, build, built, builds, submits,
                 run, pid, mark, polls, report>>

StatusOnTrigger_Kept(old) == IF old = "never_built" THEN "building" ELSE old
StatusOnTrigger(old) == "building"

\* trigger_build.
TriggerBuild(d) ==
  /\ step[d] = "trigger"
  /\ build' = [build EXCEPT ![pid[d]] = StatusOnTrigger(@)]
  /\ builds' = [builds EXCEPT ![pid[d]] = @ + 1]
  /\ \/ GoOn(d) /\ mark' = [mark EXCEPT ![d] = builds[pid[d]] + 1]
     \/ Stop(d) /\ UNCHANGED mark
  /\ UNCHANGED <<registry, kind, stored, uploads, uploaded, built, submits,
                 run, pid, sent, polls, report>>

\* A 501: the account has no builder, which the command reports as it is.
NoBuilder(d) ==
  /\ step[d] = "trigger"
  /\ step' = [step EXCEPT ![d] = "done"]
  /\ UNCHANGED <<serverVars, run, pid, mark, sent, polls, report>>

\* The request of any step fails before the service has done anything.
RequestFails(d) ==
  /\ step[d] \in DOMAIN After \cup {"poll"}
  /\ Stop(d)
  /\ UNCHANGED <<serverVars, run, pid, mark, sent, polls, report>>

LastPoll_OffByOne(d) == polls[d] >= MaxPolls
LastPoll(d) == polls[d] + 1 >= MaxPolls

\* get_build_status: the build's status and the package it was of; hash is the
\* one the command prints next to a status of ready.
Seen(p, hash) ==
  [status |-> build[p], package |-> built[p].package, build |-> built[p].build, shown |-> hash]

\* One round of poll_build_status; after the last one deploy() returns, and the
\* command prints the hash of the package it has built itself.
Poll(d) ==
  /\ step[d] = "poll"
  /\ polls' = [polls EXCEPT ![d] = @ + 1]
  /\ report' = [report EXCEPT ![d] = Seen(pid[d], PackageOf[d])]
  /\ step' = [step EXCEPT ![d] =
       IF build[pid[d]] \in {"ready", "failed"} \/ LastPoll(d) THEN "done" ELSE @]
  /\ UNCHANGED <<serverVars, run, pid, mark, sent>>

\* resolve_standalone_credentials: `status` has no script to read them off.
ResolvesCredentials(d) == d \in Configured

\* `dlt matterbeam status <pid>`: one poll, after a deploy has ended one way
\* or the other; it prints the service's current_package_hash.  A request that
\* fails changes nothing.
Status(d) ==
  /\ step[d] \in {"done", "failed"} /\ pid[d] # None
  /\ ResolvesCredentials(d)
  /\ report' = [report EXCEPT ![d] = Seen(pid[d], built[pid[d]].package)]
  /\ UNCHANGED <<serverVars, step, run, pid, mark, sent, polls>>

-----------------------------------------------------------------------------
\* The builder is done with what is uploaded for p.
BuildEnds(p) ==
  /\ build[p] = "building"
  /\ \E outcome \in {"ready", "failed"} : build' = [build EXCEPT ![p] = outcome]
  /\ built' = [built EXCEPT ![p] = [package |-> uploaded[p].package,
                                     submission |-> uploaded[p].submission, build |-> builds[p]]]
  /\ UNCHANGED <<registry, kind, stored, uploads, uploaded, builds, submits, clientVars>>

Command(d) ==
  \/ RegisterHosted(d) \/ SubmitSecrets(d) \/ CreateUploadUrl(d) \/ UploadPackage(d)
  \/ TriggerBuild(d) \/ NoBuilder(d) \/ Poll(d)

Next ==
  \/ \E d \in Deployers : Deploy(d) \/ Status(d) \/ Command(d) \/ RequestFails(d)
  \/ \E k \in Pipelines : RunRegisters(k)
  \/ \E p \in Pids : BuildEnds(p)

Spec == Init /\ [][Next]_vars

\* A command that runs goes on.  The builder owes nothing.
FairSpec == Spec /\ \A d \in Deployers : WF_vars(Command(d))

-----------------------------------------------------------------------------
(* Properties                                                              *)

Steps == {"idle", "poll", "done", "failed"} \cup DOMAIN After

\* Every variable has its type; no more polls are made than asked for, and
\* only upload URLs of runs that took place exist.
TypeOK ==
  /\ registry \in [Pipelines -> Pids \cup {None}]
  /\ kind \in [Pids -> {"none", "external_dlt", "hosted_dlt"}]
  /\ stored \in [Pids -> [Secrets -> Nat]]
  /\ uploads \subseteq Deployers \X (1 .. MaxRuns) \X Pids
  /\ uploaded \in [Pids -> [package : Packages \cup {None}, submission : Nat]]
  /\ build \in [Pids -> {"never_built", "building", "ready", "failed"}]
  /\ built \in [Pids -> [package : Packages \cup {None}, submission : Nat, build : Nat]]
  /\ builds \in [Pids -> Nat]
  /\ submits \in [Pids -> Nat]
  /\ step \in [Deployers -> Steps]
  /\ run \in [Deployers -> 0 .. MaxRuns]
  /\ pid \in [Deployers -> Pids \cup {None}]
  /\ mark \in [Deployers -> Nat]
  /\ sent \in [Deployers -> Nat]
  /\ polls \in [Deployers -> 0 .. MaxPolls]
  /\ report \in [Deployers -> [status : {"none", "never_built", "building", "ready", "failed"},
                               package : Packages \cup {None}, build : Nat,
                               shown : Packages \cup {None}]]

\* All who deploy a pipeline, at once or after one that ran by itself, hold
\* the one pid its key is claimed for, and that collector is hosted for good.
OnePid ==
  \A d \in Deployers :
    pid[d] # None => registry[PipelineOf[d]] = pid[d] /\ kind[pid[d]] = "hosted_dlt"

\* A build never finds the pid's package missing, whoever triggered it and
\* whatever failed before: the upload precedes the trigger.
BuildHasPackage == \A p \in Pids : build[p] # "never_built" => uploaded[p].package # None

\* A package that is built finds a value of each secret its deployer could
\* recover, and none that is older than the deploy which uploaded the package:
\* also when several deploys, and failed ones, have come before it.
BuiltHasSecrets ==
  \A p \in Pids : built[p].package # None =>
    \E d \in Deployers :
      /\ PackageOf[d] = built[p].package
      /\ \A s \in Recovered(d) : stored[p][s] # 0 /\ stored[p][s] >= built[p].submission

\* A finished build that a deploy, or `status` after it, reports is not an
\* earlier one: it ended after this deploy's own trigger, which resets the
\* status, whoever else deploys in the meantime.
ReportIsFresh ==
  \A d \in Deployers :
    report[d].status \in {"ready", "failed"} => report[d].build >= mark[d]

\* A command that has been started ends, also when the builder never does.
DeployEnds == \A d \in Deployers : step[d] = "register" ~> step[d] \in {"done", "failed"}

\* "build ready for pid ... (hash ...)": the hash that is printed is that of
\* the build that is ready.
ReadyHashIsBuilt ==
  \A d \in Deployers : report[d].status = "ready" => report[d].shown = report[d].package
=============================================================================
