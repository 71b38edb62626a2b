---------------------------- MODULE Deploy_proofs ----------------------------
(***************************************************************************)
(* Theorems about Deploy, for any number of deployers, pipelines, pids,    *)
(* runs and polls.                                                         *)
(***************************************************************************)
EXTENDS Deploy, TLAPS

\* The requests of a deploy are made in this order.
LEMMA Requests ==
  /\ DOMAIN After = {"register", "secrets", "url", "upload", "trigger"}
  /\ After["register"] = "secrets" /\ After["secrets"] = "url"
  /\ After["url"] = "upload" /\ After["upload"] = "trigger" /\ After["trigger"] = "poll"
BY DEF After

-----------------------------------------------------------------------------
(* The inductive invariants                                                *)

\* What a deployer holds at each step of the command.
Progress(d) ==
  /\ step[d] \in {"secrets", "url", "upload", "trigger", "poll"} => pid[d] # None
  /\ step[d] # "idle" => run[d] >= 1
  /\ step[d] \in DOMAIN After => polls[d] = 0 /\ mark[d] = 0 /\ report[d].status = "none"
  /\ step[d] = "poll" => polls[d] < MaxPolls

TypeInv == TypeOK /\ \A d \in Deployers : Progress(d)

\* An upload URL of the present run is for the pid that run has registered.
UrlsOK ==
  \A u \in uploads :
    /\ u[2] <= run[u[1]]
    /\ u[2] = run[u[1]] => u[3] = pid[u[1]] /\ step[u[1]] # "register"

\* Who is about to trigger a build has uploaded a package.
PackageInv ==
  /\ UrlsOK
  /\ \A d \in Deployers : step[d] = "trigger" => uploaded[pid[d]].package # None
  /\ BuildHasPackage

\* The number a deployer has of its build is one of its pid's builds.
Marked(d) == mark[d] # 0 => pid[d] # None /\ mark[d] <= builds[pid[d]]

\* A build that has ended and not been triggered again is the last one.
EndedIsLast == \A p \in Pids : build[p] \in {"ready", "failed"} => built[p].build = builds[p]

FreshInv == (\A d \in Deployers : Marked(d)) /\ EndedIsLast /\ ReportIsFresh

\* d's secrets are in place for p, with no value older than submission n.
InPlace(p, d, n) == \A s \in Recovered(d) : stored[p][s] # 0 /\ stored[p][s] >= n

\* Some deployer of the package has its secrets in place for the pid.
HasSecrets(p, package, n) ==
  package # None => \E d \in Deployers : PackageOf[d] = package /\ InPlace(p, d, n)

SecretsInv ==
  /\ \A p \in Pids : \A s \in Secrets : stored[p][s] <= submits[p]
  /\ \A d \in Deployers : step[d] \in {"url", "upload"} => InPlace(pid[d], d, sent[d])
  /\ \A p \in Pids : HasSecrets(p, uploaded[p].package, uploaded[p].submission)
  /\ \A p \in Pids : HasSecrets(p, built[p].package, built[p].submission)

-----------------------------------------------------------------------------
(* Registration                                                            *)

\* register() answers with the pid the key is claimed for from then on, loses
\* no other claim and makes no hosted collector external again.
LEMMA RegisterKeepsClaims ==
  ASSUME TypeOK, NEW k \in Pipelines, NEW type \in {"external_dlt", "hosted_dlt"},
         NEW p \in Pids, Register(k, type, p)
  PROVE  /\ registry' \in [Pipelines -> Pids \cup {None}]
         /\ kind' \in [Pids -> {"none", "external_dlt", "hosted_dlt"}]
         /\ registry'[k] = p
         /\ type = "hosted_dlt" => kind'[p] = "hosted_dlt"
         /\ \A j \in Pipelines : registry[j] # None =>
              /\ registry'[j] = registry[j]
              /\ kind[registry[j]] = "hosted_dlt" => kind'[registry[j]] = "hosted_dlt"
<1>. USE DEF TypeOK, Register, Claimed, Fresh
<1>1. CASE Claimed(k) /\ p = registry[k] /\ UNCHANGED registry
           /\ kind' = IF type = "hosted_dlt" THEN [kind EXCEPT ![p] = type] ELSE kind
  BY <1>1
<1>2. CASE ~Claimed(k) /\ p \in Fresh /\ registry' = [registry EXCEPT ![k] = p]
           /\ kind' = [kind EXCEPT ![p] = type]
  BY <1>2
<1>. QED
  BY <1>1, <1>2

-----------------------------------------------------------------------------
(* Types                                                                   *)

\* The answer to a request leads to the next one, or the command stops.
LEMMA StepType ==
  ASSUME TypeOK, NEW d \in Deployers, step[d] \in DOMAIN After, GoOn(d) \/ Stop(d)
  PROVE  step' \in [Deployers -> Steps]
<1>1. After[step[d]] \in Steps /\ "failed" \in Steps
  BY Requests DEF Steps
<1>2. step \in [Deployers -> Steps]
  BY DEF TypeOK
<1>. QED
  BY <1>1, <1>2 DEF GoOn, Stop

\* The command has neither a type nor a step wrong before anybody deploys.
LEMMA TypeInit == Init => TypeInv
BY PollsAssumption, Requests DEF Init, NoReport, TypeInv, TypeOK, Progress, Steps

\* Every action keeps the types and what the command holds at its steps.
LEMMA TypeNext == TypeInv /\ [Next]_vars => TypeInv'
<1>. SUFFICES ASSUME TypeOK, \A d \in Deployers : Progress(d), [Next]_vars
              PROVE  TypeOK' /\ \A d \in Deployers : Progress(d)'
  BY DEF TypeInv
<1>. USE Requests, PollsAssumption, PidsAssumption, DeployersAssumption
     DEF serverVars, clientVars, GoOn, Stop, Steps
<1>1. ASSUME NEW d \in Deployers, Deploy(d)
      PROVE  TypeOK' /\ \A e \in Deployers : Progress(e)'
  <2>1. TypeOK'
    BY <1>1 DEF Deploy, NoReport, TypeOK
  <2>2. \A e \in Deployers : Progress(e)'
    BY <1>1 DEF Deploy, NoReport, TypeOK, Progress
  <2>. QED
    BY <2>1, <2>2
<1>2. ASSUME NEW d \in Deployers, Status(d)
      PROVE  TypeOK' /\ \A e \in Deployers : Progress(e)'
  <2>1. TypeOK'
    BY <1>2 DEF Status, Seen, TypeOK
  <2>2. \A e \in Deployers : Progress(e)'
    BY <1>2 DEF Status, TypeOK, Progress
  <2>. QED
    BY <2>1, <2>2
<1>3. ASSUME NEW d \in Deployers, RegisterHosted(d)
      PROVE  TypeOK' /\ \A e \in Deployers : Progress(e)'
  <2>1. PICK p \in Pids : /\ Register(PipelineOf[d], "hosted_dlt", p)
                          /\ \/ GoOn(d) /\ pid' = [pid EXCEPT ![d] = p]
                             \/ Stop(d) /\ UNCHANGED pid
    BY <1>3 DEF RegisterHosted
  <2>2. /\ registry' \in [Pipelines -> Pids \cup {None}]
        /\ kind' \in [Pids -> {"none", "external_dlt", "hosted_dlt"}]
    BY <2>1, RegisterKeepsClaims
  <2>s. step' \in [Deployers -> Steps]
    BY <1>3, <2>1, StepType DEF RegisterHosted
  <2>d. pid' \in [Deployers -> Pids \cup {None}]
    BY <2>1 DEF TypeOK
  <2>u. UNCHANGED <<stored, uploads, uploaded, build, built, builds, submits, run, mark,
                   sent, polls, report>>
    BY <1>3 DEF RegisterHosted
  <2>3. TypeOK'
    BY <2>s, <2>d, <2>u, <2>2 DEF TypeOK
  <2>4. \A e \in Deployers : Progress(e)'
    BY <1>3, <2>1 DEF RegisterHosted, TypeOK, Progress
  <2>. QED
    BY <2>3, <2>4
<1>4. ASSUME NEW d \in Deployers, SubmitSecrets(d)
      PROVE  TypeOK' /\ \A e \in Deployers : Progress(e)'
  <2>p. pid[d] \in Pids /\ submits[pid[d]] + 1 \in Nat
    BY <1>4 DEF SubmitSecrets, TypeOK, Progress
  <2>1. Merged(pid[d], d) \in [Secrets -> Nat]
    BY <2>p DEF Merged, TypeOK
  <2>s. step' \in [Deployers -> Steps]
    BY <1>4, StepType DEF SubmitSecrets
  <2>2. TypeOK'
    BY <1>4, <2>s, <2>p, <2>1 DEF SubmitSecrets, TypeOK
  <2>3. \A e \in Deployers : Progress(e)'
    BY <1>4 DEF SubmitSecrets, TypeOK, Progress
  <2>. QED
    BY <2>2, <2>3
<1>5. ASSUME NEW d \in Deployers, CreateUploadUrl(d)
      PROVE  TypeOK' /\ \A e \in Deployers : Progress(e)'
  <2>1. <<d, run[d], pid[d]>> \in Deployers \X (1 .. MaxRuns) \X Pids
    BY <1>5 DEF CreateUploadUrl, TypeOK, Progress
  <2>s. step' \in [Deployers -> Steps]
    BY <1>5, StepType DEF CreateUploadUrl
  <2>2. TypeOK'
    BY <1>5, <2>s, <2>1 DEF CreateUploadUrl, TypeOK
  <2>3. \A e \in Deployers : Progress(e)'
    BY <1>5 DEF CreateUploadUrl, TypeOK, Progress
  <2>. QED
    BY <2>2, <2>3
<1>6. ASSUME NEW d \in Deployers, UploadPackage(d)
      PROVE  TypeOK' /\ \A e \in Deployers : Progress(e)'
  <2>s. step' \in [Deployers -> Steps]
    BY <1>6, StepType DEF UploadPackage
  <2>u. [package |-> PackageOf[d], submission |-> sent[d]]
          \in [package : Packages \cup {None}, submission : Nat]
    BY DEF TypeOK
  <2>1. TypeOK'
    BY <1>6, <2>s, <2>u DEF UploadPackage, TypeOK
  <2>2. \A e \in Deployers : Progress(e)'
    BY <1>6 DEF UploadPackage, TypeOK, Progress
  <2>. QED
    BY <2>1, <2>2
<1>7. ASSUME NEW d \in Deployers, TriggerBuild(d)
      PROVE  TypeOK' /\ \A e \in Deployers : Progress(e)'
  <2>s. step' \in [Deployers -> Steps]
    BY <1>7, StepType DEF TriggerBuild
  <2>p. pid[d] \in Pids /\ builds[pid[d]] + 1 \in Nat
    BY <1>7 DEF TriggerBuild, TypeOK, Progress
  <2>1. TypeOK'
    BY <1>7, <2>s, <2>p DEF TriggerBuild, StatusOnTrigger, TypeOK, Progress
  <2>2. \A e \in Deployers : Progress(e)'
    BY <1>7 DEF TriggerBuild, TypeOK, Progress
  <2>. QED
    BY <2>1, <2>2
<1>8. ASSUME NEW d \in Deployers, NoBuilder(d)
      PROVE  TypeOK' /\ \A e \in Deployers : Progress(e)'
  BY <1>8 DEF NoBuilder, TypeOK, Progress
<1>9. ASSUME NEW d \in Deployers, Poll(d)
      PROVE  TypeOK' /\ \A e \in Deployers : Progress(e)'
  <2>1. pid[d] \in Pids /\ polls[d] \in 0 .. MaxPolls - 1
    BY <1>9 DEF Poll, TypeOK, Progress
  <2>2. TypeOK'
    BY <1>9, <2>1 DEF Poll, Seen, TypeOK
  <2>3. \A e \in Deployers : Progress(e)'
    BY <1>9, <2>1 DEF Poll, LastPoll, TypeOK, Progress
  <2>. QED
    BY <2>2, <2>3
<1>10. ASSUME NEW d \in Deployers, RequestFails(d)
       PROVE  TypeOK' /\ \A e \in Deployers : Progress(e)'
  BY <1>10 DEF RequestFails, TypeOK, Progress
<1>11. ASSUME NEW k \in Pipelines, RunRegisters(k)
       PROVE  TypeOK' /\ \A e \in Deployers : Progress(e)'
  <2>1. PICK p \in Pids : Register(k, "external_dlt", p)
    BY <1>11 DEF RunRegisters
  <2>2. /\ registry' \in [Pipelines -> Pids \cup {None}]
        /\ kind' \in [Pids -> {"none", "external_dlt", "hosted_dlt"}]
    BY <2>1, RegisterKeepsClaims
  <2>3. TypeOK'
    BY <1>11, <2>2 DEF RunRegisters, TypeOK
  <2>4. \A e \in Deployers : Progress(e)'
    BY <1>11 DEF RunRegisters, TypeOK, Progress
  <2>. QED
    BY <2>3, <2>4
<1>12. ASSUME NEW p \in Pids, BuildEnds(p)
       PROVE  TypeOK' /\ \A e \in Deployers : Progress(e)'
  <2>1. TypeOK'
    BY <1>12 DEF BuildEnds, TypeOK
  <2>2. \A e \in Deployers : Progress(e)'
    BY <1>12 DEF BuildEnds, TypeOK, Progress
  <2>. QED
    BY <2>1, <2>2
<1>13. CASE UNCHANGED vars
  BY <1>13 DEF vars, TypeOK, Progress
<1>. QED
  BY <1>1, <1>2, <1>3, <1>4, <1>5, <1>6, <1>7, <1>8, <1>9, <1>10, <1>11, <1>12, <1>13
  DEF Next, Command

\* Types and progress hold together in every behaviour.
LEMMA TypeHolds == Spec => []TypeInv
BY TypeInit, TypeNext, PTL DEF Spec

\* Every variable keeps its type; no more polls are made than asked for, and
\* upload URLs are of runs that took place.
THEOREM TypeCorrect == Spec => []TypeOK
<1>1. TypeInv => TypeOK
  BY DEF TypeInv
<1>. QED
  BY <1>1, TypeHolds, PTL

-----------------------------------------------------------------------------
(* One pid for all who deploy a pipeline                                   *)

\* Claims are never taken back and adoption is never undone, so what holds of
\* a deployer's pid goes on to hold whoever registers.
LEMMA OnePidNext == TypeInv /\ OnePid /\ [Next]_vars => OnePid'
<1>. SUFFICES ASSUME TypeOK, OnePid, [Next]_vars PROVE OnePid'
  BY DEF TypeInv
<1>. USE DeployersAssumption DEF serverVars, clientVars
<1>1. ASSUME NEW d \in Deployers, RegisterHosted(d)
      PROVE  OnePid'
  <2>1. PICK p \in Pids : /\ Register(PipelineOf[d], "hosted_dlt", p)
                          /\ \/ GoOn(d) /\ pid' = [pid EXCEPT ![d] = p]
                             \/ Stop(d) /\ UNCHANGED pid
    BY <1>1 DEF RegisterHosted
  <2>2. /\ registry'[PipelineOf[d]] = p /\ kind'[p] = "hosted_dlt"
        /\ \A j \in Pipelines : registry[j] # None =>
             /\ registry'[j] = registry[j]
             /\ kind[registry[j]] = "hosted_dlt" => kind'[registry[j]] = "hosted_dlt"
    BY <2>1, RegisterKeepsClaims
  <2>3. ASSUME NEW e \in Deployers, pid'[e] # None
        PROVE  registry'[PipelineOf[e]] = pid'[e] /\ kind'[pid'[e]] = "hosted_dlt"
    <3>1. CASE pid'[e] = pid[e]
      BY <2>2, <2>3, <3>1 DEF OnePid
    <3>2. CASE pid'[e] # pid[e]
      BY <2>1, <2>2, <3>2 DEF TypeOK
    <3>. QED
      BY <3>1, <3>2
  <2>. QED
    BY <2>3 DEF OnePid
<1>2. ASSUME NEW k \in Pipelines, RunRegisters(k)
      PROVE  OnePid'
  <2>1. PICK p \in Pids : Register(k, "external_dlt", p)
    BY <1>2 DEF RunRegisters
  <2>2. \A j \in Pipelines : registry[j] # None =>
          /\ registry'[j] = registry[j]
          /\ kind[registry[j]] = "hosted_dlt" => kind'[registry[j]] = "hosted_dlt"
    BY <2>1, RegisterKeepsClaims
  <2>3. pid' = pid
    BY <1>2 DEF RunRegisters
  <2>. QED
    BY <2>2, <2>3 DEF OnePid
<1>3. ASSUME NEW d \in Deployers, Deploy(d)
      PROVE  OnePid'
  BY <1>3 DEF Deploy, OnePid, TypeOK
<1>4. ASSUME UNCHANGED <<registry, kind, pid>>
      PROVE  OnePid'
  BY <1>4 DEF OnePid
<1>. QED
  BY <1>1, <1>2, <1>3, <1>4
  DEF Next, Command, Status, SubmitSecrets, CreateUploadUrl, UploadPackage, TriggerBuild,
      NoBuilder, Poll, RequestFails, BuildEnds, vars

\* All who deploy a pipeline, at once or after one that ran by itself, hold
\* the pid its key is claimed for, of a collector that is hosted for good.
THEOREM OnePidForAll == Spec => []OnePid
<1>1. Init => OnePid
  BY DEF Init, OnePid
<1>. QED
  BY <1>1, OnePidNext, TypeHolds, PTL DEF Spec

-----------------------------------------------------------------------------
(* A build has a package                                                   *)

\* Each step keeps uploads, upload URLs and packages where they belong.
LEMMA PackageNext == TypeInv /\ PackageInv /\ [Next]_vars => PackageInv'
<1>. SUFFICES ASSUME TypeOK, \A d \in Deployers : Progress(d), UrlsOK, BuildHasPackage,
                     \A d \in Deployers : step[d] = "trigger" => uploaded[pid[d]].package # None,
                     [Next]_vars
              PROVE  PackageInv'
  BY DEF TypeInv, PackageInv
<1>. USE Requests, DeployersAssumption, PidsAssumption DEF serverVars, clientVars, GoOn, Stop
<1>u. \A u \in uploads : u[1] \in Deployers /\ u[2] \in Nat /\ u[3] \in Pids
  BY DEF TypeOK
<1>1. ASSUME NEW d \in Deployers, Deploy(d)
      PROVE  PackageInv'
  BY <1>1, <1>u DEF Deploy, PackageInv, UrlsOK, BuildHasPackage, TypeOK
<1>2. ASSUME NEW d \in Deployers, RegisterHosted(d)
      PROVE  PackageInv'
  <2>1. /\ UNCHANGED <<uploads, uploaded, build, run>> /\ step[d] = "register"
        /\ step'[d] \in {"secrets", "failed"}
        /\ \A e \in Deployers : e # d => pid'[e] = pid[e] /\ step'[e] = step[e]
    BY <1>2 DEF RegisterHosted, TypeOK
  <2>2. \A u \in uploads : u[1] = d => u[2] < run[d]
    <3>1. run[d] \in Nat
      BY PollsAssumption DEF TypeOK
    <3>2. \A u \in uploads : u[1] = d => u[2] <= run[d] /\ u[2] # run[d]
      BY <2>1 DEF UrlsOK
    <3>. QED
      BY <3>1, <3>2, <1>u
  <2>3. UrlsOK'
    BY <2>1, <2>2, <1>u DEF UrlsOK, TypeOK
  <2>. QED
    BY <2>1, <2>3 DEF PackageInv, BuildHasPackage
<1>3. ASSUME NEW d \in Deployers, CreateUploadUrl(d)
      PROVE  PackageInv'
  BY <1>3, <1>u DEF CreateUploadUrl, PackageInv, UrlsOK, BuildHasPackage, TypeOK
<1>4. ASSUME NEW d \in Deployers, UploadPackage(d)
      PROVE  PackageInv'
  BY <1>4, <1>u DEF UploadPackage, PackageInv, UrlsOK, BuildHasPackage, TypeOK
<1>5. ASSUME NEW d \in Deployers, TriggerBuild(d)
      PROVE  PackageInv'
  BY <1>5, <1>u DEF TriggerBuild, PackageInv, UrlsOK, BuildHasPackage, TypeOK
<1>6. ASSUME NEW d \in Deployers,
             SubmitSecrets(d) \/ NoBuilder(d) \/ Poll(d) \/ RequestFails(d) \/ Status(d)
      PROVE  PackageInv'
  BY <1>6, <1>u DEF SubmitSecrets, NoBuilder, Poll, RequestFails, Status, PackageInv, UrlsOK,
     BuildHasPackage, TypeOK
<1>7. ASSUME NEW p \in Pids, BuildEnds(p)
      PROVE  PackageInv'
  BY <1>7 DEF BuildEnds, PackageInv, UrlsOK, BuildHasPackage, TypeOK
<1>8. ASSUME UNCHANGED <<uploads, run, pid, step, uploaded, build>>
      PROVE  PackageInv'
  BY <1>8 DEF PackageInv, UrlsOK, BuildHasPackage
<1>. QED
  BY <1>1, <1>2, <1>3, <1>4, <1>5, <1>6, <1>7, <1>8 DEF Next, Command, RunRegisters, vars

\* No build is ever triggered for a pid without an uploaded package, whatever
\* failed before and whoever triggers it.
THEOREM BuildsHavePackages == Spec => []BuildHasPackage
<1>1. Init => PackageInv
  BY Requests DEF Init, PackageInv, UrlsOK, BuildHasPackage
<1>2. PackageInv => BuildHasPackage
  BY DEF PackageInv
<1>. QED
  BY <1>1, <1>2, PackageNext, TypeHolds, PTL DEF Spec

-----------------------------------------------------------------------------
(* No stale build is reported                                              *)

\* Each step keeps a deploy's build among the builds of its pid, the last one if it has ended.
LEMMA FreshNext == TypeInv /\ FreshInv /\ [Next]_vars => FreshInv'
<1>. SUFFICES ASSUME TypeOK, \A d \in Deployers : Progress(d), EndedIsLast, ReportIsFresh,
                     \A d \in Deployers : Marked(d), [Next]_vars
              PROVE  FreshInv'
  BY DEF TypeInv, FreshInv
<1>. USE Requests, PidsAssumption DEF serverVars, clientVars, GoOn, Stop
<1>1. ASSUME NEW d \in Deployers, Deploy(d)
      PROVE  FreshInv'
  BY <1>1 DEF Deploy, NoReport, FreshInv, Marked, EndedIsLast, ReportIsFresh, TypeOK
<1>2. ASSUME NEW d \in Deployers, RegisterHosted(d)
      PROVE  FreshInv'
  <2>1. UNCHANGED <<mark, builds, build, built, report>> /\ mark[d] = 0
        /\ \A e \in Deployers : e # d => pid'[e] = pid[e]
    BY <1>2 DEF RegisterHosted, TypeOK, Progress
  <2>. QED
    BY <2>1 DEF FreshInv, Marked, EndedIsLast, ReportIsFresh
<1>3. ASSUME NEW d \in Deployers, TriggerBuild(d)
      PROVE  FreshInv'
  <2>. DEFINE p == pid[d]
  <2>1. p \in Pids /\ p # None
    BY <1>3 DEF TriggerBuild, TypeOK, Progress
  <2>2. /\ UNCHANGED <<built, pid, report>>
        /\ build'[p] = "building" /\ builds'[p] = builds[p] + 1
        /\ \A q \in Pids : q # p => build'[q] = build[q] /\ builds'[q] = builds[q]
        /\ \A e \in Deployers : mark'[e] = mark[e] \/ (e = d /\ mark'[e] = builds'[p])
    BY <1>3, <2>1 DEF TriggerBuild, StatusOnTrigger, TypeOK
  <2>3. builds[p] \in Nat /\ report[d].status = "none"
    BY <1>3, <2>1 DEF TriggerBuild, TypeOK, Progress
  <2>4. \A e \in Deployers : Marked(e)'
    <3>1. ASSUME NEW e \in Deployers, mark'[e] # 0
          PROVE  pid[e] # None /\ mark'[e] <= builds'[pid[e]]
      <4>1. CASE e = d /\ mark'[e] = builds'[p]
        BY <2>1, <2>2, <2>3, <4>1
      <4>2. CASE mark'[e] = mark[e]
        <5>1. pid[e] \in Pids /\ pid[e] # None /\ mark[e] <= builds[pid[e]]
              /\ mark[e] \in Nat /\ builds[pid[e]] \in Nat
          BY <3>1, <4>2 DEF Marked, TypeOK
        <5>. QED
          BY <2>2, <2>3, <4>2, <5>1
      <4>. QED
        BY <2>2, <4>1, <4>2
    <3>. QED
      BY <2>2, <3>1 DEF Marked
  <2>5. EndedIsLast'
    BY <2>1, <2>2 DEF EndedIsLast
  <2>6. ReportIsFresh'
    BY <2>2, <2>3 DEF ReportIsFresh
  <2>. QED
    BY <2>4, <2>5, <2>6 DEF FreshInv
<1>4. ASSUME NEW d \in Deployers, Poll(d) \/ Status(d)
      PROVE  FreshInv'
  <2>1. /\ pid[d] \in Pids
        /\ report'[d].status = build[pid[d]] /\ report'[d].build = built[pid[d]].build
        /\ UNCHANGED <<mark, pid, builds, build, built>>
        /\ \A e \in Deployers : e # d => report'[e] = report[e]
    BY <1>4 DEF Poll, Status, Seen, TypeOK, Progress
  <2>2. build[pid[d]] \in {"ready", "failed"} => built[pid[d]].build >= mark[d]
    <3>1. mark[d] \in Nat /\ builds[pid[d]] \in Nat /\ built[pid[d]].build \in Nat
      BY <2>1 DEF TypeOK
    <3>2. mark[d] <= builds[pid[d]]
      BY <2>1, <3>1 DEF Marked
    <3>. QED
      BY <2>1, <3>1, <3>2 DEF EndedIsLast
  <2>4. ReportIsFresh'
    BY <2>1, <2>2 DEF ReportIsFresh
  <2>. QED
    BY <2>1, <2>4 DEF FreshInv, Marked, EndedIsLast
<1>5. ASSUME NEW p \in Pids, BuildEnds(p)
      PROVE  FreshInv'
  BY <1>5 DEF BuildEnds, FreshInv, Marked, EndedIsLast, ReportIsFresh, TypeOK
<1>6. ASSUME UNCHANGED <<mark, pid, builds, build, built, report>>
      PROVE  FreshInv'
  BY <1>6 DEF FreshInv, Marked, EndedIsLast, ReportIsFresh
<1>. QED
  BY <1>1, <1>2, <1>3, <1>4, <1>5, <1>6
  DEF Next, Command, SubmitSecrets, CreateUploadUrl, UploadPackage, NoBuilder, RequestFails,
      RunRegisters, vars

\* A finished build that a deploy or `status` reports ended after that deploy's
\* own trigger, however many other deploys of the pipeline there are.
THEOREM ReportsAreFresh == Spec => []ReportIsFresh
<1>1. Init => FreshInv
  BY DEF Init, NoReport, FreshInv, Marked, EndedIsLast, ReportIsFresh
<1>2. FreshInv => ReportIsFresh
  BY DEF FreshInv
<1>. QED
  BY <1>1, <1>2, FreshNext, TypeHolds, PTL DEF Spec

-----------------------------------------------------------------------------
(* A build has its deployer's secrets                                      *)

\* A submission makes no stored value older and puts the deployer's in place.
LEMMA SubmissionReplaces ==
  ASSUME TypeInv, SecretsInv, NEW d \in Deployers, SubmitSecrets(d)
  PROVE  /\ \A p \in Pids : \A s \in Secrets : stored'[p][s] >= stored[p][s]
         /\ \A p \in Pids : \A s \in Secrets : stored'[p][s] <= submits'[p]
         /\ \A s \in Recovered(d) : stored'[pid[d]][s] # 0 /\ stored'[pid[d]][s] >= sent'[d]
<1>1. pid[d] \in Pids /\ submits[pid[d]] \in Nat /\ Recovered(d) \subseteq Secrets
  BY DeployersAssumption DEF TypeInv, SubmitSecrets, TypeOK, Progress, Recovered
<1>2. /\ stored'[pid[d]] = Merged(pid[d], d) /\ submits'[pid[d]] = submits[pid[d]] + 1
      /\ sent'[d] = submits[pid[d]] + 1
      /\ \A p \in Pids : p # pid[d] => stored'[p] = stored[p] /\ submits'[p] = submits[p]
  BY <1>1 DEF SubmitSecrets, TypeInv, TypeOK
<1>3. \A p \in Pids : \A s \in Secrets : stored[p][s] \in Nat /\ stored[p][s] <= submits[p]
  BY DEF TypeInv, TypeOK, SecretsInv
<1>4. \A s \in Secrets : stored'[pid[d]][s] = IF s \in Recovered(d) THEN submits[pid[d]] + 1
                                               ELSE stored[pid[d]][s]
  BY <1>2 DEF Merged
<1>5. \A s \in Secrets : stored'[pid[d]][s] >= stored[pid[d]][s]
                         /\ stored'[pid[d]][s] <= submits'[pid[d]]
  BY <1>1, <1>2, <1>3, <1>4
<1>. QED
  BY <1>1, <1>2, <1>3, <1>4, <1>5

\* Secrets that are in place stay so while no value gets older.
LEMMA StaysInPlace ==
  ASSUME TypeOK, TypeOK', NEW p \in Pids, NEW d \in Deployers, NEW n \in Nat,
         \A s \in Secrets : stored'[p][s] >= stored[p][s], InPlace(p, d, n)
  PROVE  \A s \in Recovered(d) : stored'[p][s] # 0 /\ stored'[p][s] >= n
<1>1. Recovered(d) \subseteq Secrets
  BY DeployersAssumption DEF Recovered
<1>2. \A s \in Secrets : stored[p][s] \in Nat /\ stored'[p][s] \in Nat
  BY DEF TypeOK
<1>. QED
  BY <1>1, <1>2 DEF InPlace

\* Each step keeps secrets in place behind every package that is uploaded or built.
LEMMA SecretsNext == TypeInv /\ TypeInv' /\ PackageInv /\ SecretsInv /\ [Next]_vars => SecretsInv'
<1>. SUFFICES ASSUME TypeInv, TypeInv', TypeOK, TypeOK', \A d \in Deployers : Progress(d), UrlsOK,
                     SecretsInv, [Next]_vars
              PROVE  SecretsInv'
  BY DEF TypeInv, PackageInv
<1>. USE Requests, DeployersAssumption, PidsAssumption DEF serverVars, clientVars, GoOn, Stop
<1>1. ASSUME NEW d \in Deployers, SubmitSecrets(d)
      PROVE  SecretsInv'
  <2>1. /\ \A p \in Pids : \A s \in Secrets : stored'[p][s] >= stored[p][s]
        /\ \A p \in Pids : \A s \in Secrets : stored'[p][s] <= submits'[p]
        /\ \A s \in Recovered(d) : stored'[pid[d]][s] # 0 /\ stored'[pid[d]][s] >= sent'[d]
    BY <1>1, SubmissionReplaces
  <2>2. /\ UNCHANGED <<uploaded, built, pid>>
        /\ \A e \in Deployers : e # d => step'[e] = step[e] /\ sent'[e] = sent[e]
    BY <1>1 DEF SubmitSecrets, TypeOK
  <2>3. ASSUME NEW e \in Deployers, step'[e] \in {"url", "upload"}
        PROVE  \A s \in Recovered(e) : stored'[pid[e]][s] # 0 /\ stored'[pid[e]][s] >= sent'[e]
    <3>1. CASE e = d
      BY <2>1, <3>1
    <3>2. CASE e # d
      <4>1. pid[e] \in Pids /\ sent[e] \in Nat /\ InPlace(pid[e], e, sent[e]) /\ sent'[e] = sent[e]
        BY <2>2, <2>3, <3>2 DEF SecretsInv, TypeOK, Progress
      <4>. QED
        BY <2>1, <4>1, StaysInPlace
    <3>. QED
      BY <3>1, <3>2
  <2>4. ASSUME NEW p \in Pids, NEW package, NEW n \in Nat, HasSecrets(p, package, n)
        PROVE  package # None => \E e \in Deployers :
                 PackageOf[e] = package
                 /\ \A s \in Recovered(e) : stored'[p][s] # 0 /\ stored'[p][s] >= n
    BY <2>1, <2>4, StaysInPlace DEF HasSecrets
  <2>5. \A p \in Pids : uploaded[p].submission \in Nat /\ built[p].submission \in Nat
    BY DEF TypeOK
  <2>6. \A e \in Deployers : Recovered(e)' = Recovered(e)
    BY DEF Recovered
  <2>n. \A p \in Pids : HasSecrets(p, uploaded[p].package, uploaded[p].submission)
                         /\ HasSecrets(p, built[p].package, built[p].submission)
    BY DEF SecretsInv
  <2>7. (\A p \in Pids : HasSecrets(p, uploaded[p].package, uploaded[p].submission))'
    <3>1. \A p \in Pids : uploaded[p].package # None => \E e \in Deployers :
             PackageOf[e] = uploaded[p].package
             /\ \A s \in Recovered(e) : stored'[p][s] # 0 /\ stored'[p][s] >= uploaded[p].submission
      BY <2>n, <2>4, <2>5
    <3>. QED
      BY <2>2, <2>6, <3>1 DEF HasSecrets, InPlace
  <2>8. (\A p \in Pids : HasSecrets(p, built[p].package, built[p].submission))'
    <3>1. \A p \in Pids : built[p].package # None => \E e \in Deployers :
             PackageOf[e] = built[p].package
             /\ \A s \in Recovered(e) : stored'[p][s] # 0 /\ stored'[p][s] >= built[p].submission
      BY <2>n, <2>4, <2>5
    <3>. QED
      BY <2>2, <2>6, <3>1 DEF HasSecrets, InPlace
  <2>. QED
    BY <2>1, <2>2, <2>3, <2>6, <2>7, <2>8 DEF SecretsInv, InPlace
<1>2. ASSUME NEW d \in Deployers, UploadPackage(d)
      PROVE  SecretsInv'
  <2>1. PICK u \in uploads :
          /\ u[1] = d /\ u[2] = run[d]
          /\ uploaded' = [uploaded EXCEPT
               ![u[3]] = [package |-> PackageOf[d], submission |-> sent[d]]]
    BY <1>2 DEF UploadPackage
  <2>2. u[3] = pid[d] /\ pid[d] \in Pids
    BY <1>2, <2>1 DEF UrlsOK, UploadPackage, TypeOK, Progress
  <2>3. InPlace(pid[d], d, sent[d])
    BY <1>2 DEF UploadPackage, SecretsInv
  <2>4. UNCHANGED <<stored, built, pid, submits>>
    BY <1>2 DEF UploadPackage
  <2>5. \A e \in Deployers : step'[e] \in {"url", "upload"} =>
          step[e] \in {"url", "upload"} /\ sent'[e] = sent[e]
    BY <1>2 DEF UploadPackage, TypeOK
  <2>6. \A p \in Pids : uploaded'[p] = uploaded[p]
                        \/ (p = pid[d] /\ uploaded'[p].package = PackageOf[d]
                            /\ uploaded'[p].submission = sent[d])
    BY <2>1, <2>2 DEF TypeOK
  <2>7. (\A p \in Pids : HasSecrets(p, uploaded[p].package, uploaded[p].submission))'
    BY <2>3, <2>4, <2>6 DEF HasSecrets, InPlace, SecretsInv, Recovered
  <2>8. (\A p \in Pids : HasSecrets(p, built[p].package, built[p].submission))'
    BY <2>4 DEF HasSecrets, InPlace, SecretsInv, Recovered
  <2>. QED
    BY <2>4, <2>5, <2>7, <2>8 DEF SecretsInv, InPlace, Recovered
<1>3. ASSUME NEW p \in Pids, BuildEnds(p)
      PROVE  SecretsInv'
  <2>1. /\ UNCHANGED <<stored, uploaded, pid, step, sent, submits>>
        /\ \A q \in Pids : built'[q] = built[q]
                           \/ (built'[q].package = uploaded[q].package
                               /\ built'[q].submission = uploaded[q].submission)
    BY <1>3 DEF BuildEnds, TypeOK
  <2>. QED
    BY <2>1 DEF SecretsInv, HasSecrets, InPlace, Recovered
<1>4. ASSUME UNCHANGED <<stored, uploaded, built, submits>>,
             \A e \in Deployers : step'[e] \in {"url", "upload"} =>
               step[e] \in {"url", "upload"} /\ pid'[e] = pid[e] /\ sent'[e] = sent[e]
      PROVE  SecretsInv'
  BY <1>4 DEF SecretsInv, HasSecrets, InPlace, Recovered
<1>5. ASSUME NEW d \in Deployers, Deploy(d)
      PROVE  SecretsInv'
  BY <1>4, <1>5 DEF Deploy, TypeOK
<1>6. ASSUME NEW d \in Deployers, RegisterHosted(d)
      PROVE  SecretsInv'
  BY <1>4, <1>6 DEF RegisterHosted, TypeOK
<1>7. ASSUME NEW d \in Deployers,
             CreateUploadUrl(d) \/ TriggerBuild(d) \/ NoBuilder(d) \/ Poll(d) \/ RequestFails(d)
             \/ Status(d)
      PROVE  SecretsInv'
  BY <1>4, <1>7 DEF CreateUploadUrl, TriggerBuild, NoBuilder, Poll, RequestFails, Status, TypeOK
<1>8. ASSUME UNCHANGED <<stored, uploaded, built, step, pid, sent, submits>>
      PROVE  SecretsInv'
  BY <1>4, <1>8
<1>. QED
  BY <1>1, <1>2, <1>3, <1>5, <1>6, <1>7, <1>8 DEF Next, Command, RunRegisters, vars

\* A package that has been built finds every secret its deployer could recover,
\* none of a value older than the deploy that uploaded it, after any number of
\* deploys, finished or failed.
THEOREM BuildsHaveSecrets == Spec => []BuiltHasSecrets
<1>1. Init => PackageInv /\ SecretsInv
  BY Requests DEF Init, PackageInv, UrlsOK, BuildHasPackage, SecretsInv, HasSecrets
<1>2. SecretsInv => BuiltHasSecrets
  BY DEF SecretsInv, HasSecrets, InPlace, BuiltHasSecrets
<1>. QED
  BY <1>1, <1>2, SecretsNext, PackageNext, TypeHolds, PTL DEF Spec
=============================================================================
