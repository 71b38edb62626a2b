SPECIFICATION FairPipelineSpec
CONSTANTS
  IngestThreads = {a1}
  StateThreads = {s1, s2}
  Tables = {orders, items}
  Loads <- MCLoads
  Jobs = {jobA, jobB}
  Rows <- MCRows
  Ids = {id1, id2, id3}
  None = None
  DltId <- MCDltId
  Chunks <- MCChunks
  Docs = {1, 2}
  CrashPoints <- AllPoints
  WriterMod = 2
  Window = 2
  MaxMs = 0
  MaxArrivals = 9
  Machines <- TwoMachines
  LoadOf <- TwoLoads
  Package <- TwoPackage
  StateJob = jobS
  MaxRetries = 2
  MaxFaults = 1
  orders = orders
  items = items
  m1 = m1
  m2 = m2
  load1 = load1
  load2 = load2
  jobA = jobA
  jobB = jobB
  jobS = jobS
  id1 = id1
  id2 = id2
  id3 = id3
INVARIANT CompletedStateKept
PROPERTY EveryLoadEnds
PROPERTY StateOnlyAdvances
PROPERTY LockIsReturned
CHECK_DEADLOCK FALSE
