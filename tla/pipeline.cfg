SPECIFICATION PipelineSpec
CONSTANTS
  IngestThreads = {a1, a2}
  StateThreads = {s1}
  Tables = {orders, items}
  Loads <- MCLoads
  Jobs = {jobA, jobB}
  Rows <- MCRows
  Ids = {id1, id2, id3}
  None = None
  DltId <- MCDltId
  Chunks <- MCChunks
  Docs = {1}
  CrashPoints <- AllPoints
  WriterMod = 2
  Window = 2
  MaxMs = 0
  MaxArrivals = 16
  Machines <- OneMachine
  LoadOf <- OneLoad
  Package <- OnePackage
  StateJob = jobS
  MaxRetries = 2
  MaxFaults = 2
  orders = orders
  items = items
  m1 = m1
  m2 = m2
  load1 = load1
  load2 = load2
  jobA = jobA
  jobB = jobB
  jobS = jobS
  id1 = id1
  id2 = id2
  id3 = id3
INVARIANT ClientTypeOK
INVARIANT CompletedLoadIsWhole
INVARIANT AckedChunksLanded
INVARIANT JobLandsInOrder
PROPERTY CompletedLoadIsFinal
SYMMETRY Symmetry
CHECK_DEADLOCK FALSE
