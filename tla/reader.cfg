SPECIFICATION ReaderSpec
CONSTANTS
  IngestThreads = {a1, a2}
  StateThreads = {}
  Tables = {orders, items}
  Loads = {load}
  Jobs = {jobA, jobB}
  Rows <- MCRows
  Ids = {id1, id2, id3}
  None = None
  DltId <- MCDltId
  Chunks <- MCChunks
  Docs = {}
  CrashPoints <- LastPoint
  WriterMod = 2
  Window = 2
  MaxMs = 1
  MaxArrivals = 4
  KeyOf <- MCKeyOf
  Tombstones <- MCTombstones
  orders = orders
  items = items
  load = load
  jobA = jobA
  jobB = jobB
  id1 = id1
  id2 = id2
  id3 = id3
  k1 = k1
  k2 = k2
SYMMETRY Symmetry
INVARIANT SegmentsOrdered
INVARIANT ReplayIsPrefix
INVARIANT FoldIsLatest
PROPERTY KeepsPromise
CHECK_DEADLOCK FALSE
