SPECIFICATION FairSpec
CONSTANTS
  Deployers = {d1, d2}
  Pipelines = {k1}
  PipelineOf <- PairPipeline
  Packages = {h1, h2}
  PackageOf <- PairPackage
  Secrets = {key1, key2, token}
  Credentials = {token}
  TraceOf <- PairTrace
  LocalOf <- PairLocal
  Configured = {d1}
  Pids = {p1, p2}
  None = None
  MaxPolls = 2
  MaxRuns = 2
  d1 = d1
  d2 = d2
  k1 = k1
  h1 = h1
  h2 = h2
  key1 = key1
  key2 = key2
  token = token
INVARIANT TypeOK
INVARIANT OnePid
INVARIANT BuildHasPackage
INVARIANT BuiltHasSecrets
INVARIANT ReportIsFresh
PROPERTY DeployEnds
CHECK_DEADLOCK FALSE
