SPECIFICATION Spec
CONSTANTS
  IngestThreads = {a1}
  StateThreads = {}
  Tables = {orders, items}
  Loads = {load}
  Jobs = {jobA, jobB}
  Rows <- MCRows
  Ids = {id1, id2, id3}
  None = None
  DltId <- MCDltId
  Chunks <- KeyedChunks
  Docs = {}
  CrashPoints = {}
  WriterMod = 3
  Window = 2
  MaxMs = 0
  MaxArrivals = 2
  orders = orders
  items = items
  load = load
  jobA = jobA
  jobB = jobB
  jobC = jobC
  id1 = id1
  id2 = id2
  id3 = id3
INVARIANT AckedChunksLanded
CHECK_DEADLOCK FALSE
