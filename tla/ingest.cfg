SPECIFICATION Spec
CONSTANTS
  IngestThreads = {a1, a2}
  StateThreads = {s1}
  Tables = {orders, items}
  Loads = {load}
  Jobs = {jobA, jobB, jobC}
  Rows <- MCRows
  Ids = {id1, id2, id3}
  None = None
  DltId <- MCDltId
  Chunks <- PlainChunks
  Docs = {1}
  CrashPoints <- LatePoints
  WriterMod = 2
  Window = 2
  MaxMs = 0
  MaxArrivals = 3
  orders = orders
  items = items
  load = load
  jobA = jobA
  jobB = jobB
  jobC = jobC
  id1 = id1
  id2 = id2
  id3 = id3
INVARIANT TypeOK
INVARIANT EntryLock
INVARIANT JobWindowOK
INVARIANT IdsLandOnce
PROPERTY ClosedLoadIsFinal
CHECK_DEADLOCK FALSE
