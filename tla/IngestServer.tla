---------------------------- MODULE IngestServer ----------------------------
(***************************************************************************)
(* The ingest service behind the destination, for one registered pid: the  *)
(* entry lock of its state machine, the ingest of one chunk, the write of  *)
(* the dlt state document, complete_load and pause, as the server in       *)
(* tests/fake_matterbeam runs them on one thread per HTTP request.         *)
(*                                                                         *)
(* A thread runs alone between two of the labels below.  The splits are    *)
(* where another thread can see or change something: before the lock, at   *)
(* the lock, between the check of the closed loads and the commit, and at  *)
(* each point where the handler can fail half way.  Everything else in the *)
(* handler reads and writes state only the holder of the lock touches.     *)
(***************************************************************************)
EXTENDS Integers, FiniteSets, Sequences, ResidualWindow

CONSTANTS
  IngestThreads,  \* handler threads serving POST .../ingest/{table}:bulk
  StateThreads,   \* handler threads serving PUT .../state
  Tables, Loads, Jobs,
  Rows,           \* row values, opaque to the service
  Ids,            \* _dlt_id values
  None,           \* no value: an envelope without "i", an idle thread's locals
  DltId,          \* the "i" of a row's envelope, a function on Rows
  Chunks,         \* the bodies clients may send, see ChunkType
  Docs,           \* versions of the state documents clients may send
  CrashPoints,    \* points at which an ingest may raise (_chaos_crash)
  WriterMod,      \* number of writer ids, 65536 in the code
  MaxMs,          \* bound on the clock readings, in milliseconds
  MaxArrivals     \* bound on the number of requests received

Threads == IngestThreads \cup StateThreads

ChunkType ==
  [table : Tables, load : Loads, job : Jobs, seq : Nat, rows : Seq(Rows)]

\* The named failure points of an ingest, in the order it passes them.
Points == {"after_commit_before_mark", "after_mark_before_ledger", "after_ledger"}

ASSUME ThreadsAssumption == IngestThreads \cap StateThreads = {}
ASSUME RowsAssumption == None \notin Ids /\ DltId \in [Rows -> Ids \cup {None}]
ASSUME ChunksAssumption == Chunks \subseteq ChunkType /\ None \notin Chunks
ASSUME DocsAssumption == Docs \subseteq Nat \ {0}
ASSUME CrashAssumption == CrashPoints \subseteq Points
ASSUME BoundsAssumption ==
  WriterMod \in Nat \ {0} /\ MaxMs \in Nat /\ MaxArrivals \in Nat

VARIABLES
  item,          \* the pid's record: update_version, invoke_semaphore, fsm_state
  ledger,        \* keys of the chunks recorded as ingested
  seen,          \* dlt_ids_seen: ids marked as landed, per load
  closed,        \* closed_loads
  highWater,     \* high_water_ms, per table
  jobOrder,      \* job_order, per table
  resurrections, \* the residual_stale_resurrection counter
  writerSeq,     \* writer_seq
  log,           \* committed segments, per table, in the order of the commits
  dltState,      \* version of the stored state document, 0 for none
  pc,            \* each thread's position in its handler
  version,       \* what claim() returned to the thread
  chunk, batch,  \* an ingest thread's request, and what it is writing
  doc,           \* a state thread's request
  reply,         \* the response a thread has sent or will send
  arrivals       \* requests received so far

ingestVars == <<ledger, seen, closed, highWater, jobOrder, resurrections,
                writerSeq, log>>
requestVars == <<chunk, doc, arrivals>>
vars == <<item, ingestVars, dltState, pc, version, batch, reply, requestVars>>

-----------------------------------------------------------------------------
MaxOf(a, b) == IF a >= b THEN a ELSE b

\* Deviations: definitions named X_Reason are what a slip in X would make of
\* it.  No action uses them; they measure which property notices the slip.

LKey_NoSeq(c) == <<c.load, c.job, 0>>

\* A chunk's place in its load: the key of the ledger.
LKey(c) == <<c.load, c.job, c.seq>>

\* An in-flight batch or a committed segment keeps the chunk it came from and
\* the positions of its rows that passed the dedup, in the chunk's order.
BatchType ==
  {b \in [chunk : Chunks, kept : SUBSET Nat, ms : Nat, writer : 0 .. WriterMod - 1] :
     b.kept \subseteq DOMAIN b.chunk.rows}

KeptRows_NoBackstop(c) == DOMAIN c.rows

\* Rows of c that go to the log: all but those whose id is marked as landed.
KeptRows(c) ==
  {i \in DOMAIN c.rows : DltId[c.rows[i]] = None \/ DltId[c.rows[i]] \notin seen[c.load]}

\* Ids a segment put in the log; rows without an id leave no mark.
SegIds(s) == {DltId[s.chunk.rows[i]] : i \in s.kept} \ {None}

Clamp_Off(table, ms) == ms

\* begin_ms: never at or below the table's high water, whatever the clock says.
Clamp(table, ms) == MaxOf(ms, highWater[table] + 1)

NextWriter_NoWrap == writerSeq + 1
NextWriter == (writerSeq + 1) % WriterMod

\* The record id of a segment's last row without its noise, which only breaks
\* ties, and the order of the segments under a reader's cursor.
LastId(s) == <<s.ms, Cardinality(s.kept) - 1, s.writer>>
IdLess(a, b) ==
  \/ a[1] < b[1]
  \/ a[1] = b[1] /\ a[2] < b[2]
  \/ a[1] = b[1] /\ a[2] = b[2] /\ a[3] < b[3]

-----------------------------------------------------------------------------
\* The state register() leaves for a new pid, before its first request.
Init ==
  /\ item = [update_version |-> 1, invoke_semaphore |-> 1, fsm_state |-> "LISTENING"]
  /\ ledger = {}
  /\ seen = [l \in Loads |-> {}]
  /\ closed = {}
  /\ highWater = [t \in Tables |-> 0]
  /\ jobOrder = [t \in Tables |-> <<>>]
  /\ resurrections = 0
  /\ writerSeq = 0
  /\ log = [t \in Tables |-> <<>>]
  /\ dltState = 0
  /\ pc = [t \in Threads |-> "idle"]
  /\ version = [t \in Threads |-> 0]
  /\ chunk = [t \in IngestThreads |-> None]
  /\ batch = [t \in IngestThreads |-> None]
  /\ doc = [t \in StateThreads |-> 0]
  /\ reply = [t \in Threads |-> "none"]
  /\ arrivals = 0

-----------------------------------------------------------------------------
(* Requests and the entry lock                                             *)

\* A thread moves to label; a thread that answers sets its reply.
Goto(t, label) == pc' = [pc EXCEPT ![t] = label]
Answer(t, r) == reply' = [reply EXCEPT ![t] = r]

\* do_POST reads a chunk off the connection.
ArriveIngest(t, c) ==
  /\ pc[t] = "idle" /\ arrivals < MaxArrivals
  /\ chunk' = [chunk EXCEPT ![t] = c]
  /\ arrivals' = arrivals + 1
  /\ Goto(t, "ledger")
  /\ UNCHANGED <<item, ingestVars, dltState, version, batch, reply, doc>>

\* do_PUT reads a state document off the connection.
ArriveState(t, v) ==
  /\ pc[t] = "idle" /\ arrivals < MaxArrivals
  /\ doc' = [doc EXCEPT ![t] = v]
  /\ arrivals' = arrivals + 1
  /\ Goto(t, "claim")
  /\ UNCHANGED <<item, ingestVars, dltState, version, batch, reply, chunk>>

\* The replay check, made under the mutex and before the entry lock.
LedgerCheck(t) ==
  /\ pc[t] = "ledger"
  /\ \/ /\ LKey(chunk[t]) \in ledger
        /\ Answer(t, "duplicate")
        /\ Goto(t, "replied")
     \/ /\ LKey(chunk[t]) \notin ledger
        /\ Goto(t, "claim")
        /\ UNCHANGED reply
  /\ UNCHANGED <<item, ingestVars, dltState, version, batch, requestVars>>

Paused == item.fsm_state = "PAUSED"
LockIsFree_Unchecked == TRUE
LockIsFree == item.invoke_semaphore = 1

\* The part of claim() that fails: a paused pid first, then a held lock.
ClaimRefused(t) ==
  /\ pc[t] = "claim"
  /\ \/ Paused /\ Answer(t, "paused")
     \/ ~Paused /\ ~LockIsFree /\ Answer(t, "lock_contention")
  /\ Goto(t, "replied")
  /\ UNCHANGED <<item, ingestVars, dltState, version, batch, requestVars>>

\* claim() takes the entry lock; the handler goes on under it.
Claim(t) ==
  /\ pc[t] = "claim" /\ ~Paused /\ LockIsFree
  /\ item' = [update_version |-> item.update_version + 1,
              invoke_semaphore |-> 0, fsm_state |-> "RUNNING"]
  /\ version' = [version EXCEPT ![t] = item.update_version + 1]
  /\ Goto(t, IF t \in IngestThreads THEN "admit" ELSE "compare")
  /\ UNCHANGED <<ingestVars, dltState, batch, reply, requestVars>>

Released_UnlessPaused(v) ==
  IF item.update_version = v /\ ~Paused
  THEN [update_version |-> v + 1, invoke_semaphore |-> 1, fsm_state |-> "LISTENING"]
  ELSE item

\* release(), which only undoes the claim that is still the current one.
Released(v) ==
  IF item.update_version = v
  THEN [update_version |-> v + 1, invoke_semaphore |-> 1, fsm_state |-> "LISTENING"]
  ELSE item

\* The `finally` of ingest and of put_dlt_state, on every way out.
Release(t) ==
  /\ pc[t] = "release"
  /\ item' = Released(version[t])
  /\ Goto(t, "replied")
  /\ UNCHANGED <<ingestVars, dltState, version, batch, reply, requestVars>>

\* The response is on the wire and the thread serves the next request.
Finish(t) ==
  /\ pc[t] = "replied"
  /\ Goto(t, "idle")
  /\ Answer(t, "none")
  /\ version' = [version EXCEPT ![t] = 0]
  /\ IF t \in IngestThreads
     THEN /\ chunk' = [chunk EXCEPT ![t] = None]
          /\ batch' = [batch EXCEPT ![t] = None]
          /\ UNCHANGED doc
     ELSE doc' = [doc EXCEPT ![t] = 0] /\ UNCHANGED <<chunk, batch>>
  /\ UNCHANGED <<item, ingestVars, dltState, arrivals>>

-----------------------------------------------------------------------------
(* The ingest of one chunk, under the entry lock                           *)

LoadClosed_Unchecked(c) == FALSE
LoadClosed(c) == c.load \in closed

\* The load was closed before this chunk got the lock.
RefuseClosed(t) ==
  /\ pc[t] = "admit" /\ LoadClosed(chunk[t])
  /\ Answer(t, "load_closed")
  /\ Goto(t, "release")
  /\ UNCHANGED <<item, ingestVars, dltState, version, batch, requestVars>>

\* Writer id, job arrival, dedup and time stamp: all that precedes the commit.
Admit(t) ==
  LET c == chunk[t] IN
  /\ pc[t] = "admit" /\ ~LoadClosed(c)
  /\ writerSeq' = NextWriter
  /\ jobOrder' = [jobOrder EXCEPT ![c.table] = TrackJobArrival(@, c.job)]
  /\ resurrections' =
       IF IsResurrection(jobOrder[c.table], c.job) THEN resurrections + 1 ELSE resurrections
  /\ \E ms \in 0 .. MaxMs :
       batch' = [batch EXCEPT ![t] = [chunk |-> c, kept |-> KeptRows(c),
                                      ms |-> Clamp(c.table, ms), writer |-> NextWriter]]
  /\ Goto(t, "commit")
  /\ UNCHANGED <<item, ledger, seen, closed, highWater, log, dltState, version,
                 reply, requestVars>>

\* The body does not parse or the segment cannot be written: nothing landed.
Abort(t) ==
  /\ pc[t] = "commit"
  /\ Answer(t, "error")
  /\ Goto(t, "release")
  /\ UNCHANGED <<item, ingestVars, dltState, version, batch, requestVars>>

\* The handler goes on to label, or raises at this point if the run lets it.
PassOrCrash(t, point, label) ==
  \/ Goto(t, label) /\ UNCHANGED reply
  \/ point \in CrashPoints /\ Answer(t, "error") /\ Goto(t, "release")

\* write_segment, atomic by os.replace; a batch without rows writes none.
Commit(t) ==
  LET b == batch[t] IN
  /\ pc[t] = "commit"
  /\ log' = IF b.kept = {} THEN log
            ELSE [log EXCEPT ![b.chunk.table] = Append(@, b)]
  /\ PassOrCrash(t, "after_commit_before_mark", "mark")
  /\ UNCHANGED <<item, ledger, seen, closed, highWater, jobOrder, resurrections,
                 writerSeq, dltState, version, batch, requestVars>>

\* The ids of the committed rows become known to the dedup.
Mark(t) ==
  LET b == batch[t] IN
  /\ pc[t] = "mark"
  /\ seen' = [seen EXCEPT ![b.chunk.load] = @ \cup SegIds(b)]
  /\ PassOrCrash(t, "after_mark_before_ledger", "record")
  /\ UNCHANGED <<item, ledger, closed, highWater, jobOrder, resurrections,
                 writerSeq, log, dltState, version, batch, requestVars>>

\* The table's high water and the ledger entry; then the chunk is ingested.
Record(t) ==
  LET b == batch[t] IN
  /\ pc[t] = "record"
  /\ highWater' = [highWater EXCEPT ![b.chunk.table] = MaxOf(@, b.ms)]
  /\ ledger' = ledger \cup {LKey(b.chunk)}
  /\ \/ Answer(t, "ok")
     \/ "after_ledger" \in CrashPoints /\ Answer(t, "error")
  /\ Goto(t, "release")
  /\ UNCHANGED <<item, seen, closed, jobOrder, resurrections, writerSeq, log,
                 dltState, version, batch, requestVars>>

-----------------------------------------------------------------------------
(* The state document, the end of a load and pause                         *)

\* doc["version"] <= previous["version"]; 0 stands for no document yet.
IsStale(v) == dltState # 0 /\ v <= dltState

\* put_dlt_state compares versions under the lock ...
Compare(t) ==
  /\ pc[t] = "compare"
  /\ \/ /\ IsStale(doc[t])
        /\ Answer(t, "stale_state_version")
        /\ Goto(t, "release")
     \/ /\ ~IsStale(doc[t])
        /\ Goto(t, "store")
        /\ UNCHANGED reply
  /\ UNCHANGED <<item, ingestVars, dltState, version, batch, requestVars>>

\* ... and stores the document.
Store(t) ==
  /\ pc[t] = "store"
  /\ dltState' = doc[t]
  /\ Answer(t, "ok")
  /\ Goto(t, "release")
  /\ UNCHANGED <<item, ingestVars, version, batch, requestVars>>

\* complete_load: under the mutex alone, whoever holds the entry lock.
CompleteLoad(l) ==
  /\ closed' = closed \cup {l}
  /\ UNCHANGED <<item, ledger, seen, highWater, jobOrder, resurrections, writerSeq,
                 log, dltState, pc, version, batch, reply, requestVars>>

\* pause: under the mutex alone, the version and the semaphore untouched.
Pause ==
  /\ item' = [item EXCEPT !.fsm_state = "PAUSED"]
  /\ UNCHANGED <<ingestVars, dltState, pc, version, batch, reply, requestVars>>

-----------------------------------------------------------------------------
IngestStep(t) ==
  \/ LedgerCheck(t) \/ RefuseClosed(t) \/ Admit(t) \/ Abort(t)
  \/ Commit(t) \/ Mark(t) \/ Record(t)

StateStep(t) == Compare(t) \/ Store(t)

\* What a thread does for the request it has.
LockStep(t) == ClaimRefused(t) \/ Claim(t) \/ Release(t) \/ Finish(t)

Next ==
  \/ \E t \in IngestThreads : IngestStep(t) \/ \E c \in Chunks : ArriveIngest(t, c)
  \/ \E t \in StateThreads : StateStep(t) \/ \E v \in Docs : ArriveState(t, v)
  \/ \E t \in Threads : LockStep(t)
  \/ \E l \in Loads : CompleteLoad(l)
  \/ Pause

Spec == Init /\ [][Next]_vars

\* Every thread the server has started runs to its response.
FairSpec ==
  /\ Spec
  /\ \A t \in IngestThreads : WF_vars(IngestStep(t))
  /\ \A t \in StateThreads : WF_vars(StateStep(t))
  /\ \A t \in Threads : WF_vars(LockStep(t))

-----------------------------------------------------------------------------
(* Properties                                                              *)

Labels == {"idle", "ledger", "claim", "admit", "commit", "mark", "record",
           "compare", "store", "release", "replied"}
Replies == {"none", "ok", "duplicate", "lock_contention", "paused", "load_closed",
            "stale_state_version", "error"}

\* A thread between its claim and its release.
Holds(t) == pc[t] \in {"admit", "commit", "mark", "record", "compare", "store", "release"}

\* A thread that has built the batch it is about to write.
HasBatch(t) == pc[t] \in {"commit", "mark", "record"}

\* What the service keeps from request to request.
StoreTypeOK ==
  /\ item \in [update_version : Nat \ {0}, invoke_semaphore : {0, 1},
               fsm_state : {"LISTENING", "RUNNING", "PAUSED"}]
  /\ ledger \subseteq Loads \X Jobs \X Nat
  /\ seen \in [Loads -> SUBSET Ids]
  /\ closed \subseteq Loads
  /\ highWater \in [Tables -> Nat]
  /\ jobOrder \in [Tables -> Seq(Jobs)]
  /\ resurrections \in Nat
  /\ writerSeq \in 0 .. WriterMod - 1
  /\ log \in [Tables -> Seq(BatchType)]
  /\ dltState \in Nat

\* What the threads keep during one.
ThreadTypeOK ==
  /\ pc \in [Threads -> Labels]
  /\ version \in [Threads -> Nat]
  /\ chunk \in [IngestThreads -> Chunks \cup {None}]
  /\ batch \in [IngestThreads -> BatchType \cup {None}]
  /\ doc \in [StateThreads -> Docs \cup {0}]
  /\ reply \in [Threads -> Replies]
  /\ arrivals \in Nat

\* The locals a handler reads at a label are set when it gets there.
LocalsOK ==
  /\ \A t \in IngestThreads :
       /\ pc[t] \notin {"compare", "store"}
       /\ pc[t] # "idle" => chunk[t] \in Chunks
       /\ HasBatch(t) => batch[t] \in BatchType /\ batch[t].chunk = chunk[t]
  /\ \A t \in StateThreads :
       /\ pc[t] \notin {"ledger", "admit", "commit", "mark", "record"}
       /\ pc[t] # "idle" => doc[t] \in Docs
  /\ \A t \in Threads : pc[t] \notin {"release", "replied"} => reply[t] = "none"

\* Every variable has its type, and a thread's locals are set by the time its
\* handler has reached the label that reads them.
TypeOK == StoreTypeOK /\ ThreadTypeOK /\ LocalsOK

\* At most one thread is between claim() and release(), the semaphore tells
\* whether one is, and its version is still the current one, so that its
\* release always frees the lock: claim and release of the pid's record.
EntryLock ==
  /\ \A a, b \in Threads : Holds(a) /\ Holds(b) => a = b
  /\ item.invoke_semaphore = 0 <=> \E t \in Threads : Holds(t)
  /\ \A t \in Threads :
       Holds(t) => version[t] = item.update_version /\ item.fsm_state # "LISTENING"

\* A table's list of jobs keeps to its window, has no job twice in a row, and
\* ends with the job whose batch is being written: what _track_job_arrival cuts
\* off are the oldest entries, and nobody else's arrival comes in between.
JobWindowOK ==
  \A tb \in Tables :
    /\ Len(jobOrder[tb]) <= Window
    /\ \A i \in 1 .. Len(jobOrder[tb]) - 1 : jobOrder[tb][i] # jobOrder[tb][i + 1]
    /\ \A t \in IngestThreads :
         HasBatch(t) /\ batch[t].chunk.table = tb
         => jobOrder[tb][Len(jobOrder[tb])] = batch[t].chunk.job

\* What some of the properties need of the environment.  A handler fails in
\* the middle of its bookkeeping at the last point at most:
NoEarlyCrash == CrashPoints \subseteq {"after_ledger"}
\* it does not fail between a commit and the mark of the ids that landed:
NoCrashBeforeMark == "after_commit_before_mark" \notin CrashPoints
\* a chunk that is sent again has the rows it had (chunk_records unchanged):
StableChunks == \A c, d \in Chunks : LKey(c) = LKey(d) => c = d
\* within a load an id is given to one row of one table:
IdNamesRow ==
  \A c, d \in Chunks : \A i \in DOMAIN c.rows, j \in DOMAIN d.rows :
    c.load = d.load /\ DltId[c.rows[i]] = DltId[d.rows[j]] /\ DltId[c.rows[i]] # None
    => c.rows[i] = d.rows[j] /\ c.table = d.table

\* No segment sorts below one that was visible before it, so a reader whose
\* cursor has advanced misses none: the high-water clamp of ingest.
SegmentsOrdered ==
  \A tb \in Tables : \A i, j \in 1 .. Len(log[tb]) :
    i < j => IdLess(LastId(log[tb][i]), LastId(log[tb][j]))

\* Two segments of one load never hold the same id, whichever tables they are
\* in: the dedup of ingest, which reads its marks and commits under the lock.
IdsLandOnce ==
  \A tb, tc \in Tables : \A i \in 1 .. Len(log[tb]) : \A j \in 1 .. Len(log[tc]) :
    log[tb][i].chunk.load = log[tc][j].chunk.load =>
      \/ tb = tc /\ i = j
      \/ SegIds(log[tb][i]) \cap SegIds(log[tc][j]) = {}

\* Row i of chunk c is in the log of c's table, under c's load.
RowLanded(c, i) ==
  \E j \in 1 .. Len(log[c.table]) :
    LET s == log[c.table][j] IN
    s.chunk.load = c.load /\ \E k \in s.kept : s.chunk.rows[k] = c.rows[i]

Landed(c) == \A i \in DOMAIN c.rows : RowLanded(c, i)

\* A client that is told its chunk is in, now or by an earlier request, can
\* forget it: every row of it is in the log.  ingest writes the ledger, and
\* marks ids, only after the commit.
AckedChunksLanded ==
  \A t \in IngestThreads : reply[t] \in {"ok", "duplicate"} => Landed(chunk[t])

-----------------------------------------------------------------------------
(* The invariants the proofs go by                                         *)

\* Stamps rise along each log; a batch to be committed is above its table's
\* high water; and what is not yet below the high water is covered by the
\* holder that is about to raise it.
OrderInv ==
  /\ \A tb \in Tables : \A i, j \in 1 .. Len(log[tb]) :
       i < j => log[tb][i].ms < log[tb][j].ms
  /\ \A t \in IngestThreads :
       pc[t] = "commit" => batch[t].ms > highWater[batch[t].chunk.table]
  /\ \A tb \in Tables : \A i \in 1 .. Len(log[tb]) :
       \/ log[tb][i].ms <= highWater[tb]
       \/ \E t \in IngestThreads :
            /\ pc[t] \in {"mark", "record"}
            /\ batch[t].chunk.table = tb
            /\ log[tb][i].ms <= batch[t].ms

\* What is to be committed is not marked, and what is committed is marked or
\* about to be.
BatchIdsNew ==
  \A t \in IngestThreads :
    pc[t] = "commit" => SegIds(batch[t]) \cap seen[batch[t].chunk.load] = {}

LogIdsMarked ==
  \A tb \in Tables : \A i \in 1 .. Len(log[tb]) :
    \/ SegIds(log[tb][i]) \subseteq seen[log[tb][i].chunk.load]
    \/ \E t \in IngestThreads :
         /\ pc[t] = "mark"
         /\ batch[t].chunk.load = log[tb][i].chunk.load
         /\ SegIds(log[tb][i]) \subseteq SegIds(batch[t])

IdsInv == BatchIdsNew /\ LogIdsMarked /\ IdsLandOnce

\* Every mark, every ledger entry and every batch past its commit is backed by
\* rows in the log, and a batch leaves out only rows whose ids are marked.
MarksLanded ==
  \A l \in Loads : \A id \in seen[l] :
    \E c \in Chunks : \E i \in DOMAIN c.rows :
      c.load = l /\ DltId[c.rows[i]] = id /\ RowLanded(c, i)

LedgerLanded == \A c \in Chunks : LKey(c) \in ledger => Landed(c)

BatchesLanded ==
  \A t \in IngestThreads :
    /\ pc[t] = "commit" =>
         \A i \in (DOMAIN chunk[t].rows) \ batch[t].kept :
           DltId[chunk[t].rows[i]] \in seen[chunk[t].load]
    /\ pc[t] \in {"mark", "record"} => Landed(chunk[t])

LandedInv == MarksLanded /\ LedgerLanded /\ BatchesLanded /\ AckedChunksLanded

-----------------------------------------------------------------------------
(* More than one step                                                      *)

\* The number of segments load l has in the log.
SegmentsOf(l) ==
  Cardinality({p \in Tables \X (1 .. MaxArrivals) :
                 p[2] <= Len(log[p[1]]) /\ log[p[1]][p[2]].chunk.load = l})

\* Once a load is closed and the entry lock has been free, the load is final:
\* only the request that already held the lock may still commit to it.  The
\* closed check of ingest comes after claim() for this.
ClosedLoadIsFinal ==
  \A l \in Loads, n \in 0 .. MaxArrivals :
    []((l \in closed /\ item.invoke_semaphore = 1 /\ SegmentsOf(l) = n) => [](SegmentsOf(l) = n))

\* The stored state document only ever moves to a newer version, although
\* two machines write it: put_dlt_state compares and stores under the lock.
StateOnlyAdvances == [][dltState' # dltState => dltState' > dltState]_vars

\* Whoever takes the entry lock gives it back, also after a failure: the
\* `finally` around everything ingest and put_dlt_state do under it.
LockIsReturned == item.invoke_semaphore = 0 ~> item.invoke_semaphore = 1

\* The log as its readers may think of it.
FactsOf(s) == [load |-> s.chunk.load, ids |-> SegIds(s), ms |-> s.ms]
Promise == INSTANCE FactLog WITH
  facts <- [tb \in Tables |-> [i \in 1 .. Len(log[tb]) |-> FactsOf(log[tb][i])]]

\* The service keeps the promise of FactLog: threads, lock, ledger, marks and
\* clamp together make every commit one growth step of an abstract log.
KeepsPromise == Promise!Spec
=============================================================================
