------------------------- MODULE IngestServer_proofs -------------------------
(***************************************************************************)
(* Theorems about IngestServer, for every value of its constants: its      *)
(* safety invariants, and then those about more than one state, that the   *)
(* stored document only advances, a closed load is final, the job window   *)
(* is kept, and the service implements the append-only log of FactLog.     *)
(***************************************************************************)
EXTENDS IngestServer, SequenceTheorems, TLAPS

-----------------------------------------------------------------------------
(* Lemmas about the operators                                              *)

\* The window of recent jobs is a sequence of jobs, however long the list was.
LEMMA TrackJobArrivalType ==
  ASSUME NEW S, NEW order \in Seq(S), NEW job \in S
  PROVE  TrackJobArrival(order, job) \in Seq(S)
<1>1. Append(order, job) \in Seq(S)
  OBVIOUS
<1>2. ASSUME NEW long \in Seq(S), long # <<>>
      PROVE  KeepLast(long) \in Seq(S)
  <2> DEFINE first == IF Len(long) > Window THEN Len(long) - Window + 1 ELSE 1
  <2>1. Len(long) \in Nat /\ Window \in Nat \ {0}
    BY WindowAssumption
  <2>2. first \in 1 .. Len(long) + 1
    BY <2>1
  <2>3. \A i \in first .. Len(long) : long[i] \in S
    BY <2>1, <2>2
  <2>4. SubSeq(long, first, Len(long)) \in Seq(S)
    BY <2>1, <2>2, <2>3, SubSeqProperties
  <2>. QED
    BY <2>4 DEF KeepLast
<1>3. Append(order, job) # <<>>
  OBVIOUS
<1>. QED
  BY <1>1, <1>2, <1>3 DEF TrackJobArrival

\* A time stamp is a natural number above the table's high water.
LEMMA ClampAboveHighWater ==
  ASSUME NEW tb \in Tables, NEW ms \in Nat, highWater \in [Tables -> Nat]
  PROVE  Clamp(tb, ms) \in Nat /\ Clamp(tb, ms) > highWater[tb]
BY DEF Clamp, MaxOf

\* The next writer id is one, also after the last one was used.
LEMMA NextWriterType ==
  ASSUME writerSeq \in 0 .. WriterMod - 1
  PROVE  NextWriter \in 0 .. WriterMod - 1
BY BoundsAssumption DEF NextWriter

\* The rows that go to the log are rows of the chunk.
LEMMA KeptRowsType ==
  ASSUME NEW c \in Chunks
  PROVE  KeptRows(c) \subseteq DOMAIN c.rows /\ KeptRows(c) \in SUBSET Nat
<1>1. c.rows \in Seq(Rows)
  BY ChunksAssumption DEF ChunkType
<1>. QED
  BY <1>1 DEF KeptRows

\* What a batch marks as landed are ids.
LEMMA SegIdsType ==
  ASSUME NEW b \in BatchType
  PROVE  SegIds(b) \subseteq Ids
<1>1. b.chunk \in Chunks /\ b.kept \subseteq DOMAIN b.chunk.rows
  BY DEF BatchType
<1>2. b.chunk.rows \in Seq(Rows)
  BY <1>1, ChunksAssumption DEF ChunkType
<1>3. \A i \in b.kept : b.chunk.rows[i] \in Rows
  BY <1>1, <1>2
<1>. QED
  BY <1>3, RowsAssumption DEF SegIds

-----------------------------------------------------------------------------
(* Type correctness                                                        *)

\* Every state of the service is well typed: TypeOK is inductive, the labels
\* carrying what each thread's locals hold by then.
LEMMA TypeInit == Init => TypeOK
<1>. SUFFICES ASSUME Init PROVE TypeOK
  OBVIOUS
<1>. USE BoundsAssumption DEF Init
<1>1. StoreTypeOK
  <2>1. log \in [Tables -> Seq(BatchType)] /\ jobOrder \in [Tables -> Seq(Jobs)]
    OBVIOUS
  <2>. QED
    BY <2>1 DEF StoreTypeOK
<1>2. ThreadTypeOK
  BY DEF ThreadTypeOK, Labels, Replies, Threads
<1>3. LocalsOK
  BY DEF LocalsOK, Threads, HasBatch
<1>. QED
  BY <1>1, <1>2, <1>3 DEF TypeOK

\* Every action keeps the types, and sets a local before the label that reads
\* it.
LEMMA TypeNext == TypeOK /\ [Next]_vars => TypeOK'
<1>. SUFFICES ASSUME StoreTypeOK, ThreadTypeOK, LocalsOK, [Next]_vars PROVE TypeOK'
  BY DEF TypeOK
<1>. USE ThreadsAssumption DEF Labels, Replies, HasBatch, Goto, Answer, Threads
<1>1. ASSUME NEW t \in IngestThreads, NEW c \in Chunks, ArriveIngest(t, c)
      PROVE  TypeOK'
  <2>s. StoreTypeOK'
    BY <1>1 DEF ArriveIngest, ingestVars, StoreTypeOK
  <2>t. ThreadTypeOK'
    BY <1>1 DEF ArriveIngest, ingestVars, ThreadTypeOK
  <2>l. LocalsOK'
    BY <1>1 DEF ArriveIngest, ingestVars, ThreadTypeOK, LocalsOK
  <2>. QED
    BY <2>s, <2>t, <2>l DEF TypeOK
<1>2. ASSUME NEW t \in StateThreads, NEW v \in Docs, ArriveState(t, v)
      PROVE  TypeOK'
  <2>s. StoreTypeOK'
    BY <1>2 DEF ArriveState, ingestVars, StoreTypeOK
  <2>t. ThreadTypeOK'
    BY <1>2 DEF ArriveState, ingestVars, ThreadTypeOK
  <2>l. LocalsOK'
    BY <1>2 DEF ArriveState, ingestVars, ThreadTypeOK, LocalsOK
  <2>. QED
    BY <2>s, <2>t, <2>l DEF TypeOK
<1>3. ASSUME NEW t \in IngestThreads, LedgerCheck(t)
      PROVE  TypeOK'
  <2>s. StoreTypeOK'
    BY <1>3 DEF LedgerCheck, ingestVars, requestVars, StoreTypeOK
  <2>t. ThreadTypeOK'
    BY <1>3 DEF LedgerCheck, ingestVars, requestVars, ThreadTypeOK
  <2>l. LocalsOK'
    BY <1>3 DEF LedgerCheck, ingestVars, requestVars, ThreadTypeOK, LocalsOK
  <2>. QED
    BY <2>s, <2>t, <2>l DEF TypeOK
<1>4. ASSUME NEW t \in IngestThreads, RefuseClosed(t)
      PROVE  TypeOK'
  <2>s. StoreTypeOK'
    BY <1>4 DEF RefuseClosed, ingestVars, requestVars, StoreTypeOK
  <2>t. ThreadTypeOK'
    BY <1>4 DEF RefuseClosed, ingestVars, requestVars, ThreadTypeOK
  <2>l. LocalsOK'
    BY <1>4 DEF RefuseClosed, ingestVars, requestVars, ThreadTypeOK, LocalsOK
  <2>. QED
    BY <2>s, <2>t, <2>l DEF TypeOK
<1>5. ASSUME NEW t \in IngestThreads, Admit(t)
      PROVE  TypeOK'
  <2>. DEFINE c == chunk[t]
  <2>1. c \in Chunks /\ c.table \in Tables /\ c.job \in Jobs
    BY <1>5, ChunksAssumption DEF Admit, ChunkType, LocalsOK
  <2>2. writerSeq' \in 0 .. WriterMod - 1 /\ NextWriter \in 0 .. WriterMod - 1
    BY <1>5, NextWriterType DEF Admit, StoreTypeOK
  <2>3. jobOrder' \in [Tables -> Seq(Jobs)]
    <3>1. TrackJobArrival(jobOrder[c.table], c.job) \in Seq(Jobs)
      BY <2>1, TrackJobArrivalType DEF StoreTypeOK
    <3>. QED
      BY <1>5, <3>1 DEF Admit, StoreTypeOK
  <2>4. resurrections' \in Nat
    BY <1>5 DEF Admit, StoreTypeOK
  <2>5. PICK ms \in 0 .. MaxMs :
          batch' = [batch EXCEPT ![t] = [chunk |-> c, kept |-> KeptRows(c),
                                         ms |-> Clamp(c.table, ms), writer |-> NextWriter]]
    BY <1>5 DEF Admit
  <2>6. Clamp(c.table, ms) \in Nat
    <3>1. ms \in Nat
      BY BoundsAssumption
    <3>. QED
      BY <2>1, <3>1, ClampAboveHighWater DEF StoreTypeOK
  <2>7. KeptRows(c) \in SUBSET Nat /\ KeptRows(c) \subseteq DOMAIN c.rows
    BY <2>1, KeptRowsType
  <2>8. [chunk |-> c, kept |-> KeptRows(c), ms |-> Clamp(c.table, ms),
         writer |-> NextWriter] \in BatchType
    BY <2>1, <2>2, <2>6, <2>7 DEF BatchType
  <2>9. /\ batch' \in [IngestThreads -> BatchType \cup {None}]
        /\ batch'[t] \in BatchType /\ batch'[t].chunk = c
        /\ \A u \in IngestThreads : u # t => batch'[u] = batch[u]
    BY <2>5, <2>8 DEF ThreadTypeOK
  <2>s. StoreTypeOK'
    BY <1>5, <2>2, <2>3, <2>4 DEF Admit, StoreTypeOK
  <2>t. ThreadTypeOK'
    BY <1>5, <2>9 DEF Admit, requestVars, ThreadTypeOK
  <2>l. LocalsOK'
    BY <1>5, <2>1, <2>9 DEF Admit, requestVars, ThreadTypeOK, LocalsOK
  <2>. QED
    BY <2>s, <2>t, <2>l DEF TypeOK
<1>6. ASSUME NEW t \in IngestThreads, Abort(t)
      PROVE  TypeOK'
  <2>s. StoreTypeOK'
    BY <1>6 DEF Abort, ingestVars, requestVars, StoreTypeOK
  <2>t. ThreadTypeOK'
    BY <1>6 DEF Abort, ingestVars, requestVars, ThreadTypeOK
  <2>l. LocalsOK'
    BY <1>6 DEF Abort, ingestVars, requestVars, ThreadTypeOK, LocalsOK
  <2>. QED
    BY <2>s, <2>t, <2>l DEF TypeOK
<1>7. ASSUME NEW t \in IngestThreads, Commit(t)
      PROVE  TypeOK'
  <2>1. batch[t] \in BatchType /\ batch[t].chunk.table \in Tables
    BY <1>7, ChunksAssumption DEF Commit, LocalsOK, BatchType, ChunkType
  <2>2. log' \in [Tables -> Seq(BatchType)]
    BY <1>7, <2>1 DEF Commit, StoreTypeOK
  <2>s. StoreTypeOK'
    BY <1>7, <2>2 DEF Commit, StoreTypeOK
  <2>t. ThreadTypeOK'
    BY <1>7 DEF Commit, PassOrCrash, requestVars, ThreadTypeOK
  <2>l. LocalsOK'
    BY <1>7 DEF Commit, PassOrCrash, requestVars, ThreadTypeOK, LocalsOK
  <2>. QED
    BY <2>s, <2>t, <2>l DEF TypeOK
<1>8. ASSUME NEW t \in IngestThreads, Mark(t)
      PROVE  TypeOK'
  <2>1. SegIds(batch[t]) \subseteq Ids
    BY <1>8, SegIdsType DEF Mark, LocalsOK
  <2>s. StoreTypeOK'
    BY <1>8, <2>1 DEF Mark, StoreTypeOK
  <2>t. ThreadTypeOK'
    BY <1>8 DEF Mark, PassOrCrash, requestVars, ThreadTypeOK
  <2>l. LocalsOK'
    BY <1>8 DEF Mark, PassOrCrash, requestVars, ThreadTypeOK, LocalsOK
  <2>. QED
    BY <2>s, <2>t, <2>l DEF TypeOK
<1>9. ASSUME NEW t \in IngestThreads, Record(t)
      PROVE  TypeOK'
  <2>1. batch[t] \in BatchType /\ batch[t].chunk \in Chunks /\ batch[t].ms \in Nat
    BY <1>9 DEF Record, LocalsOK, BatchType
  <2>2. LKey(batch[t].chunk) \in Loads \X Jobs \X Nat
    BY <2>1, ChunksAssumption DEF LKey, ChunkType
  <2>s. StoreTypeOK'
    BY <1>9, <2>1, <2>2 DEF Record, StoreTypeOK, MaxOf
  <2>t. ThreadTypeOK'
    BY <1>9 DEF Record, requestVars, ThreadTypeOK
  <2>l. LocalsOK'
    BY <1>9 DEF Record, requestVars, ThreadTypeOK, LocalsOK
  <2>. QED
    BY <2>s, <2>t, <2>l DEF TypeOK
<1>10. ASSUME NEW t \in StateThreads, Compare(t)
      PROVE  TypeOK'
  <2>s. StoreTypeOK'
    BY <1>10 DEF Compare, ingestVars, requestVars, StoreTypeOK
  <2>t. ThreadTypeOK'
    BY <1>10 DEF Compare, ingestVars, requestVars, ThreadTypeOK
  <2>l. LocalsOK'
    BY <1>10 DEF Compare, ingestVars, requestVars, ThreadTypeOK, LocalsOK
  <2>. QED
    BY <2>s, <2>t, <2>l DEF TypeOK
<1>11. ASSUME NEW t \in StateThreads, Store(t)
      PROVE  TypeOK'
  <2>s. StoreTypeOK'
    BY <1>11, DocsAssumption DEF Store, ingestVars, StoreTypeOK, LocalsOK
  <2>t. ThreadTypeOK'
    BY <1>11 DEF Store, requestVars, ThreadTypeOK
  <2>l. LocalsOK'
    BY <1>11 DEF Store, requestVars, ThreadTypeOK, LocalsOK
  <2>. QED
    BY <2>s, <2>t, <2>l DEF TypeOK
<1>12. ASSUME NEW t \in Threads, ClaimRefused(t)
      PROVE  TypeOK'
  <2>s. StoreTypeOK'
    BY <1>12 DEF ClaimRefused, ingestVars, requestVars, StoreTypeOK
  <2>t. ThreadTypeOK'
    BY <1>12 DEF ClaimRefused, ingestVars, requestVars, ThreadTypeOK
  <2>l. LocalsOK'
    BY <1>12 DEF ClaimRefused, ingestVars, requestVars, ThreadTypeOK, LocalsOK
  <2>. QED
    BY <2>s, <2>t, <2>l DEF TypeOK
<1>13. ASSUME NEW t \in Threads, Claim(t)
      PROVE  TypeOK'
  <2>s. StoreTypeOK'
    BY <1>13 DEF Claim, ingestVars, StoreTypeOK
  <2>t. ThreadTypeOK'
    BY <1>13 DEF Claim, requestVars, StoreTypeOK, ThreadTypeOK
  <2>l. LocalsOK'
    BY <1>13 DEF Claim, requestVars, ThreadTypeOK, LocalsOK
  <2>. QED
    BY <2>s, <2>t, <2>l DEF TypeOK
<1>14. ASSUME NEW t \in Threads, Release(t)
      PROVE  TypeOK'
  <2>s. StoreTypeOK'
    BY <1>14 DEF Release, Released, ingestVars, StoreTypeOK
  <2>t. ThreadTypeOK'
    BY <1>14 DEF Release, requestVars, ThreadTypeOK
  <2>l. LocalsOK'
    BY <1>14 DEF Release, requestVars, ThreadTypeOK, LocalsOK
  <2>. QED
    BY <2>s, <2>t, <2>l DEF TypeOK
<1>15. ASSUME NEW t \in Threads, Finish(t)
      PROVE  TypeOK'
  <2>s. StoreTypeOK'
    BY <1>15 DEF Finish, ingestVars, StoreTypeOK
  <2>t. ThreadTypeOK'
    BY <1>15 DEF Finish, ingestVars, ThreadTypeOK
  <2>l. LocalsOK'
    BY <1>15 DEF Finish, ingestVars, ThreadTypeOK, LocalsOK
  <2>. QED
    BY <2>s, <2>t, <2>l DEF TypeOK
<1>16. ASSUME NEW l \in Loads, CompleteLoad(l)
      PROVE  TypeOK'
  <2>s. StoreTypeOK'
    BY <1>16 DEF CompleteLoad, requestVars, StoreTypeOK
  <2>t. ThreadTypeOK'
    BY <1>16 DEF CompleteLoad, requestVars, ThreadTypeOK
  <2>l. LocalsOK'
    BY <1>16 DEF CompleteLoad, requestVars, ThreadTypeOK, LocalsOK
  <2>. QED
    BY <2>s, <2>t, <2>l DEF TypeOK
<1>17. CASE Pause
  <2>s. StoreTypeOK'
    BY <1>17 DEF Pause, ingestVars, requestVars, StoreTypeOK
  <2>t. ThreadTypeOK'
    BY <1>17 DEF Pause, ingestVars, requestVars, ThreadTypeOK
  <2>l. LocalsOK'
    BY <1>17 DEF Pause, ingestVars, requestVars, ThreadTypeOK, LocalsOK
  <2>. QED
    BY <2>s, <2>t, <2>l DEF TypeOK
<1>18. CASE UNCHANGED vars
  <2>s. StoreTypeOK'
    BY <1>18 DEF vars, ingestVars, requestVars, StoreTypeOK
  <2>t. ThreadTypeOK'
    BY <1>18 DEF vars, ingestVars, requestVars, ThreadTypeOK
  <2>l. LocalsOK'
    BY <1>18 DEF vars, ingestVars, requestVars, ThreadTypeOK, LocalsOK
  <2>. QED
    BY <2>s, <2>t, <2>l DEF TypeOK
<1>. QED
  BY <1>1, <1>2, <1>3, <1>4, <1>5, <1>6, <1>7, <1>8, <1>9, <1>10, <1>11, <1>12,
     <1>13, <1>14, <1>15, <1>16, <1>17, <1>18
     DEF Next, IngestStep, StateStep, LockStep

\* The type invariant of the run "ingest".
THEOREM TypeCorrect == Spec => []TypeOK
BY TypeInit, TypeNext, PTL DEF Spec

-----------------------------------------------------------------------------
(* The entry lock                                                          *)

\* The parts of the types the arguments about the lock need.
LEMMA LockTypes ==
  ASSUME TypeOK
  PROVE  /\ item \in [update_version : Nat \ {0}, invoke_semaphore : {0, 1},
                      fsm_state : {"LISTENING", "RUNNING", "PAUSED"}]
         /\ pc \in [Threads -> Labels]
         /\ version \in [Threads -> Nat]
BY DEF TypeOK, StoreTypeOK, ThreadTypeOK

\* Steps that move a thread neither into nor out of the lock leave it alone.
LEMMA LockUndisturbed ==
  ASSUME EntryLock, NEW t \in Threads, pc \in [Threads -> Labels],
         NEW label \in Labels, Goto(t, label), UNCHANGED <<item, version>>,
         Holds(t) <=> Holds(t)'
  PROVE  EntryLock'
<1>1. \A u \in Threads : Holds(u) <=> Holds(u)'
  BY DEF Goto, Holds
<1>. QED
  BY <1>1 DEF EntryLock

\* At most one thread is inside, and its claim is the current one.
LEMMA EntryLockNext == TypeOK /\ EntryLock /\ [Next]_vars => EntryLock'
<1>. SUFFICES ASSUME TypeOK, EntryLock, [Next]_vars PROVE EntryLock'
  OBVIOUS
<1>. USE LockTypes DEF Labels
<1>1. ASSUME NEW t \in IngestThreads, IngestStep(t)
      PROVE  EntryLock'
  <2>. t \in Threads
    BY DEF Threads
  <2>1. CASE LedgerCheck(t)
    BY <2>1, LockUndisturbed DEF LedgerCheck, Holds, Goto
  <2>2. CASE RefuseClosed(t)
    BY <2>2, LockUndisturbed DEF RefuseClosed, Holds, Goto
  <2>3. CASE Admit(t)
    BY <2>3, LockUndisturbed DEF Admit, Holds, Goto
  <2>4. CASE Abort(t)
    BY <2>4, LockUndisturbed DEF Abort, Holds, Goto
  <2>5. CASE Commit(t)
    BY <2>5, LockUndisturbed DEF Commit, PassOrCrash, Holds, Goto
  <2>6. CASE Mark(t)
    BY <2>6, LockUndisturbed DEF Mark, PassOrCrash, Holds, Goto
  <2>7. CASE Record(t)
    BY <2>7, LockUndisturbed DEF Record, Holds, Goto
  <2>. QED
    BY <1>1, <2>1, <2>2, <2>3, <2>4, <2>5, <2>6, <2>7 DEF IngestStep
<1>2. ASSUME NEW t \in StateThreads, StateStep(t)
      PROVE  EntryLock'
  <2>. t \in Threads
    BY DEF Threads
  <2>1. CASE Compare(t)
    BY <2>1, LockUndisturbed DEF Compare, Holds, Goto
  <2>2. CASE Store(t)
    BY <2>2, LockUndisturbed DEF Store, Holds, Goto
  <2>. QED
    BY <1>2, <2>1, <2>2 DEF StateStep
<1>3. ASSUME NEW t \in IngestThreads, NEW c \in Chunks, ArriveIngest(t, c)
      PROVE  EntryLock'
  BY <1>3, LockUndisturbed DEF ArriveIngest, Holds, Goto, Threads
<1>4. ASSUME NEW t \in StateThreads, NEW v \in Docs, ArriveState(t, v)
      PROVE  EntryLock'
  BY <1>4, LockUndisturbed DEF ArriveState, Holds, Goto, Threads
<1>5. ASSUME NEW t \in Threads, ClaimRefused(t)
      PROVE  EntryLock'
  BY <1>5, LockUndisturbed DEF ClaimRefused, Holds, Goto
<1>6. ASSUME NEW t \in Threads, Claim(t)
      PROVE  EntryLock'
  <2>1. \A u \in Threads : ~Holds(u)
    BY <1>6 DEF Claim, LockIsFree, EntryLock
  <2>2. Holds(t)' /\ \A u \in Threads : u # t => ~Holds(u)'
    BY <1>6, <2>1 DEF Claim, Goto, Holds
  <2>3. /\ item'.invoke_semaphore = 0 /\ item'.fsm_state = "RUNNING"
        /\ version'[t] = item'.update_version
    BY <1>6 DEF Claim
  <2>. QED
    BY <2>2, <2>3 DEF EntryLock
<1>7. ASSUME NEW t \in Threads, Release(t)
      PROVE  EntryLock'
  <2>1. Holds(t) /\ version[t] = item.update_version
    BY <1>7 DEF Release, Holds, EntryLock
  <2>2. \A u \in Threads : ~Holds(u)'
    BY <1>7, <2>1 DEF Release, Goto, Holds, EntryLock
  <2>3. item'.invoke_semaphore = 1
    BY <1>7, <2>1 DEF Release, Released
  <2>. QED
    BY <2>2, <2>3 DEF EntryLock
<1>8. ASSUME NEW t \in Threads, Finish(t)
      PROVE  EntryLock'
  <2>1. ~Holds(t) /\ \A u \in Threads : Holds(u) <=> Holds(u)'
    BY <1>8 DEF Finish, Goto, Holds
  <2>2. \A u \in Threads : Holds(u) => version'[u] = version[u]
    BY <1>8, <2>1 DEF Finish
  <2>. QED
    BY <1>8, <2>1, <2>2 DEF Finish, EntryLock
<1>9. ASSUME NEW l \in Loads, CompleteLoad(l)
      PROVE  EntryLock'
  BY <1>9 DEF CompleteLoad, EntryLock, Holds
<1>10. CASE Pause
  <2>1. /\ item'.invoke_semaphore = item.invoke_semaphore
        /\ item'.update_version = item.update_version
        /\ item'.fsm_state = "PAUSED"
    BY <1>10 DEF Pause
  <2>. QED
    BY <1>10, <2>1 DEF Pause, EntryLock, Holds
<1>11. CASE UNCHANGED vars
  BY <1>11 DEF vars, EntryLock, Holds
<1>. QED
  BY <1>1, <1>2, <1>3, <1>4, <1>5, <1>6, <1>7, <1>8, <1>9, <1>10, <1>11
     DEF Next, LockStep

\* Mutual exclusion on the pid's record, and every release frees the lock.
THEOREM EntryLockHeld == Spec => []EntryLock
<1>1. Init => EntryLock
  BY DEF Init, EntryLock, Holds
<1>. QED
  BY <1>1, EntryLockNext, TypeCorrect, PTL DEF Spec

-----------------------------------------------------------------------------
(* What a step can do to the log and to the bookkeeping around it          *)

\* No thread gets or loses a batch it is about to commit, mark or record.
BatchesStay ==
  \A u \in IngestThreads :
    /\ HasBatch(u)' => HasBatch(u) /\ pc'[u] = pc[u] /\ batch'[u] = batch[u]
    /\ HasBatch(u) /\ pc[u] # "commit" =>
         HasBatch(u)' /\ pc'[u] = pc[u] /\ batch'[u] = batch[u]

\* A step that touches none of it; it may acknowledge a recorded chunk.
Quiet ==
  /\ BatchesStay
  /\ UNCHANGED <<log, highWater, seen, ledger>>
  /\ \A u \in IngestThreads :
       /\ HasBatch(u)' => chunk'[u] = chunk[u]
       /\ reply'[u] \in {"ok", "duplicate"} =>
            /\ chunk'[u] = chunk[u]
            /\ reply[u] \in {"ok", "duplicate"} \/ LKey(chunk[u]) \in ledger

\* Only four steps are not quiet.
LEMMA WorkOrQuiet ==
  ASSUME TypeOK, TypeOK', [Next]_vars
  PROVE  Quiet \/ \E t \in IngestThreads : Admit(t) \/ Commit(t) \/ Mark(t) \/ Record(t)
<1>. USE ThreadsAssumption DEF Goto, Answer, HasBatch, BatchesStay, Threads
<1>0. /\ pc \in [Threads -> Labels] /\ reply \in [Threads -> Replies]
      /\ chunk \in [IngestThreads -> Chunks \cup {None}]
      /\ batch \in [IngestThreads -> BatchType \cup {None}]
      /\ LocalsOK
  BY DEF TypeOK, ThreadTypeOK
<1>1. ASSUME NEW t \in IngestThreads, LedgerCheck(t)
      PROVE  Quiet
  BY <1>0, <1>1 DEF LedgerCheck, ingestVars, requestVars, LocalsOK, Quiet
<1>2. ASSUME NEW t \in IngestThreads, RefuseClosed(t)
      PROVE  Quiet
  BY <1>0, <1>2 DEF RefuseClosed, ingestVars, requestVars, LocalsOK, Quiet
<1>3. ASSUME NEW t \in IngestThreads, Abort(t)
      PROVE  Quiet
  BY <1>0, <1>3 DEF Abort, ingestVars, requestVars, LocalsOK, Quiet
<1>4. ASSUME NEW t \in IngestThreads, NEW c \in Chunks, ArriveIngest(t, c)
      PROVE  Quiet
  BY <1>0, <1>4 DEF ArriveIngest, ingestVars, LocalsOK, Quiet
<1>5. ASSUME NEW t \in StateThreads, NEW v \in Docs, ArriveState(t, v)
      PROVE  Quiet
  BY <1>0, <1>5 DEF ArriveState, ingestVars, Quiet
<1>6. ASSUME NEW t \in StateThreads, Compare(t)
      PROVE  Quiet
  BY <1>0, <1>6 DEF Compare, ingestVars, requestVars, Quiet
<1>7. ASSUME NEW t \in StateThreads, Store(t)
      PROVE  Quiet
  BY <1>0, <1>7 DEF Store, ingestVars, requestVars, Quiet
<1>8. ASSUME NEW t \in Threads, ClaimRefused(t)
      PROVE  Quiet
  BY <1>0, <1>8 DEF ClaimRefused, ingestVars, requestVars, Quiet
<1>9. ASSUME NEW t \in Threads, Claim(t)
      PROVE  Quiet
  BY <1>0, <1>9 DEF Claim, ingestVars, requestVars, Quiet
<1>10. ASSUME NEW t \in Threads, Release(t)
      PROVE  Quiet
  BY <1>0, <1>10 DEF Release, ingestVars, requestVars, Quiet
<1>11. ASSUME NEW t \in Threads, Finish(t)
      PROVE  Quiet
  BY <1>0, <1>11 DEF Finish, ingestVars, Quiet
<1>12. ASSUME NEW l \in Loads, CompleteLoad(l)
      PROVE  Quiet
  BY <1>0, <1>12 DEF CompleteLoad, requestVars, Quiet
<1>13. CASE Pause
  BY <1>13 DEF Pause, ingestVars, requestVars, Quiet
<1>14. CASE UNCHANGED vars
  BY <1>14 DEF vars, ingestVars, requestVars, Quiet
<1>. QED
  BY <1>1, <1>2, <1>3, <1>4, <1>5, <1>6, <1>7, <1>8, <1>9, <1>10, <1>11, <1>12, <1>13, <1>14
     DEF Next, IngestStep, StateStep, LockStep

-----------------------------------------------------------------------------
(* The order of the segments                                               *)

\* The commit is the work of the only thread inside the lock.
LEMMA OnlyHolder ==
  ASSUME EntryLock, NEW t \in IngestThreads, HasBatch(t)
  PROVE  \A u \in IngestThreads : HasBatch(u) => u = t
BY DEF EntryLock, HasBatch, Holds, Threads

\* What a batch in flight or in the log is made of.
LEMMA BatchFields ==
  ASSUME NEW b \in BatchType
  PROVE  /\ b.chunk \in Chunks /\ b.kept \subseteq DOMAIN b.chunk.rows
         /\ b.ms \in Nat
         /\ b.chunk.table \in Tables /\ b.chunk.load \in Loads
         /\ b.chunk.rows \in Seq(Rows)
BY ChunksAssumption DEF BatchType, ChunkType

\* The parts of the types the arguments about the log need.
LEMMA LogTypes ==
  ASSUME TypeOK
  PROVE  /\ log \in [Tables -> Seq(BatchType)]
         /\ highWater \in [Tables -> Nat]
         /\ seen \in [Loads -> SUBSET Ids]
         /\ pc \in [Threads -> Labels]
         /\ batch \in [IngestThreads -> BatchType \cup {None}]
         /\ \A t \in IngestThreads :
              HasBatch(t) => batch[t] \in BatchType /\ batch[t].chunk = chunk[t]
         /\ \A tb \in Tables : Len(log[tb]) \in Nat
         /\ \A tb \in Tables : \A i \in 1 .. Len(log[tb]) : log[tb][i] \in BatchType
<1>1. log \in [Tables -> Seq(BatchType)]
  BY DEF TypeOK, StoreTypeOK
<1>2. \A tb \in Tables : Len(log[tb]) \in Nat
  BY <1>1
<1>3. \A tb \in Tables : \A i \in 1 .. Len(log[tb]) : log[tb][i] \in BatchType
  BY <1>1
<1>. QED
  BY <1>1, <1>2, <1>3 DEF TypeOK, StoreTypeOK, ThreadTypeOK, LocalsOK

\* A commit adds at most its batch, at the end of its table's log.
LEMMA CommitAppends ==
  ASSUME TypeOK, NEW t \in IngestThreads, Commit(t)
  PROVE  /\ batch[t] \in BatchType /\ HasBatch(t) /\ batch[t].chunk = chunk[t]
         /\ \A tb \in Tables : \A i \in 1 .. Len(log[tb]) :
              i \in 1 .. Len(log'[tb]) /\ log'[tb][i] = log[tb][i]
         /\ \A tb \in Tables : \A i \in 1 .. Len(log'[tb]) :
              \/ i \in 1 .. Len(log[tb])
              \/ /\ i = Len(log[tb]) + 1 /\ tb = batch[t].chunk.table
                 /\ log'[tb][i] = batch[t]
         /\ batch[t].kept # {} =>
              /\ Len(log'[batch[t].chunk.table]) = Len(log[batch[t].chunk.table]) + 1
              /\ log'[batch[t].chunk.table][Len(log[batch[t].chunk.table]) + 1] = batch[t]
         /\ batch' = batch
<1>1. HasBatch(t) /\ batch[t] \in BatchType /\ batch[t].chunk = chunk[t]
  BY LogTypes DEF Commit, HasBatch
<1>2. batch[t].chunk.table \in Tables
  BY <1>1, BatchFields
<1>3. \A tb \in Tables :
        \/ log'[tb] = log[tb]
        \/ tb = batch[t].chunk.table /\ log'[tb] = Append(log[tb], batch[t])
  BY <1>2, LogTypes DEF Commit
<1>4. batch[t].kept # {} =>
        log'[batch[t].chunk.table] = Append(log[batch[t].chunk.table], batch[t])
  BY <1>2, LogTypes DEF Commit
<1>5. \A tb \in Tables : log[tb] \in Seq(BatchType)
  BY LogTypes
<1>6. ASSUME NEW tb \in Tables
      PROVE  /\ \A i \in 1 .. Len(log[tb]) :
                  i \in 1 .. Len(log'[tb]) /\ log'[tb][i] = log[tb][i]
             /\ \A i \in 1 .. Len(log'[tb]) :
                  \/ i \in 1 .. Len(log[tb])
                  \/ /\ i = Len(log[tb]) + 1 /\ tb = batch[t].chunk.table
                     /\ log'[tb][i] = batch[t]
  BY <1>1, <1>3, <1>5
<1>7. batch[t].kept # {} =>
        /\ Len(log'[batch[t].chunk.table]) = Len(log[batch[t].chunk.table]) + 1
        /\ log'[batch[t].chunk.table][Len(log[batch[t].chunk.table]) + 1] = batch[t]
  BY <1>1, <1>2, <1>4, <1>5
<1>. QED
  BY <1>1, <1>6, <1>7 DEF Commit

\* What Admit leaves its thread with.
LEMMA AdmitBuilds ==
  ASSUME TypeOK, NEW t \in IngestThreads, Admit(t)
  PROVE  /\ chunk[t] \in Chunks
         /\ batch'[t].chunk = chunk[t] /\ batch'[t].kept = KeptRows(chunk[t])
         /\ batch'[t].ms > highWater[chunk[t].table]
         /\ \A u \in IngestThreads : u # t => batch'[u] = batch[u] /\ pc'[u] = pc[u]
         /\ pc[t] = "admit" /\ pc'[t] = "commit"
<1>1. chunk[t] \in Chunks
  BY DEF TypeOK, LocalsOK, Admit
<1>2. PICK ms \in 0 .. MaxMs :
        batch' = [batch EXCEPT ![t] = [chunk |-> chunk[t], kept |-> KeptRows(chunk[t]),
                                       ms |-> Clamp(chunk[t].table, ms),
                                       writer |-> NextWriter]]
  BY DEF Admit
<1>3. Clamp(chunk[t].table, ms) > highWater[chunk[t].table]
  <2>1. ms \in Nat /\ chunk[t].table \in Tables
    BY <1>1, BoundsAssumption, ChunksAssumption DEF ChunkType
  <2>. QED
    BY <2>1, LogTypes, ClampAboveHighWater
<1>. QED
  BY <1>1, <1>2, <1>3, LogTypes DEF Admit, Goto, Threads

\* The strengthening of the order: each step keeps it when no handler fails
\* before it has raised the high water.
LEMMA OrderInvNext ==
  ASSUME NoEarlyCrash, TypeOK, TypeOK', EntryLock, OrderInv, [Next]_vars
  PROVE  OrderInv'
<1>1. CASE Quiet
  BY <1>1 DEF Quiet, BatchesStay, HasBatch, OrderInv
<1>2. ASSUME NEW t \in IngestThreads, Admit(t)
      PROVE  OrderInv'
  <2>1. UNCHANGED <<log, highWater>>
    BY <1>2 DEF Admit
  <2>. QED
    BY <1>2, <2>1, AdmitBuilds DEF OrderInv
<1>3. ASSUME NEW t \in IngestThreads, Commit(t)
      PROVE  OrderInv'
  <2>. DEFINE b == batch[t]
  <2>1. pc[t] = "commit" /\ HasBatch(t) /\ UNCHANGED <<highWater, batch>>
    BY <1>3 DEF Commit, HasBatch
  <2>2. pc' = [pc EXCEPT ![t] = "mark"]
    BY <1>3 DEF Commit, PassOrCrash, Goto, NoEarlyCrash
  <2>3. pc'[t] = "mark" /\ \A u \in IngestThreads : pc'[u] # "commit"
    BY <2>1, <2>2, LogTypes, OnlyHolder DEF HasBatch, Threads
  <2>4. \A tb \in Tables : \A i \in 1 .. Len(log[tb]) : log[tb][i].ms <= highWater[tb]
    BY <2>1, OnlyHolder DEF OrderInv, HasBatch
  <2>5. b.ms \in Nat /\ b.chunk.table \in Tables /\ b.ms > highWater[b.chunk.table]
    BY <1>3, <2>1, CommitAppends, BatchFields DEF OrderInv
  <2>6. \A tb \in Tables : \A i \in 1 .. Len(log[tb]) :
          log[tb][i].ms \in Nat /\ highWater[tb] \in Nat
    BY LogTypes, BatchFields
  <2>7. ASSUME NEW tb \in Tables, NEW i \in 1 .. Len(log'[tb]), NEW j \in 1 .. Len(log'[tb]),
               i < j
        PROVE  log'[tb][i].ms < log'[tb][j].ms
    <3>0. Len(log[tb]) \in Nat
      BY LogTypes
    <3>1. i \in 1 .. Len(log[tb]) /\ log'[tb][i] = log[tb][i]
      BY <1>3, <2>7, <3>0, CommitAppends
    <3>2. CASE j \in 1 .. Len(log[tb])
      BY <1>3, <2>7, <3>1, <3>2, CommitAppends DEF OrderInv
    <3>3. CASE tb = b.chunk.table /\ log'[tb][j] = b
      BY <2>4, <2>5, <2>6, <3>1, <3>3
    <3>. QED
      BY <1>3, <3>2, <3>3, CommitAppends
  <2>8. ASSUME NEW tb \in Tables, NEW i \in 1 .. Len(log'[tb])
        PROVE  \/ log'[tb][i].ms <= highWater'[tb]
               \/ tb = b.chunk.table /\ log'[tb][i].ms <= b.ms
    <3>1. CASE i \in 1 .. Len(log[tb])
      BY <1>3, <2>1, <2>4, <3>1, CommitAppends
    <3>2. CASE tb = b.chunk.table /\ log'[tb][i] = b
      BY <2>5, <3>2
    <3>. QED
      BY <1>3, <3>1, <3>2, CommitAppends
  <2>. QED
    BY <2>1, <2>3, <2>7, <2>8 DEF OrderInv
<1>4. ASSUME NEW t \in IngestThreads, Mark(t)
      PROVE  OrderInv'
  <2>1. UNCHANGED <<log, highWater, batch>> /\ pc[t] = "mark"
    BY <1>4 DEF Mark
  <2>2. pc' = [pc EXCEPT ![t] = "record"]
    BY <1>4 DEF Mark, PassOrCrash, Goto, NoEarlyCrash
  <2>3. pc'[t] = "record" /\ \A u \in IngestThreads : u # t => pc'[u] = pc[u]
    BY <2>2, LogTypes DEF Threads
  <2>. QED
    BY <2>1, <2>3 DEF OrderInv
<1>5. ASSUME NEW t \in IngestThreads, Record(t)
      PROVE  OrderInv'
  <2>. DEFINE b == batch[t]
  <2>1. HasBatch(t) /\ UNCHANGED <<log, batch>> /\ b \in BatchType
    BY <1>5, LogTypes DEF Record, HasBatch
  <2>2. \A u \in IngestThreads : pc'[u] # "commit"
    BY <1>5, <2>1, LogTypes, OnlyHolder DEF Record, Goto, HasBatch, Threads
  <2>3. highWater' = [highWater EXCEPT ![b.chunk.table] = MaxOf(@, b.ms)]
    BY <1>5 DEF Record
  <2>4. b.ms \in Nat /\ b.chunk.table \in Tables
    BY <2>1, BatchFields
  <2>5. ASSUME NEW tb \in Tables, NEW i \in 1 .. Len(log[tb])
        PROVE  log[tb][i].ms <= highWater'[tb]
    <3>1. log[tb][i].ms \in Nat /\ highWater[tb] \in Nat
      BY LogTypes, BatchFields
    <3>2. \/ log[tb][i].ms <= highWater[tb]
          \/ tb = b.chunk.table /\ log[tb][i].ms <= b.ms
      BY <2>1, OnlyHolder DEF OrderInv, HasBatch
    <3>. QED
      BY <2>3, <2>4, <3>1, <3>2, LogTypes DEF MaxOf
  <2>. QED
    BY <2>1, <2>2, <2>5 DEF OrderInv
<1>. QED
  BY <1>1, <1>2, <1>3, <1>4, <1>5, WorkOrQuiet

\* The strengthening gives the order of the record ids.
LEMMA OrderInvOrders == TypeOK /\ OrderInv => SegmentsOrdered
<1>. SUFFICES ASSUME TypeOK, OrderInv,
                     NEW tb \in Tables, NEW i \in 1 .. Len(log[tb]), NEW j \in 1 .. Len(log[tb]),
                     i < j
              PROVE  IdLess(LastId(log[tb][i]), LastId(log[tb][j]))
  BY DEF SegmentsOrdered
<1>1. log[tb][i].ms < log[tb][j].ms
  BY DEF OrderInv
<1>. QED
  BY <1>1 DEF IdLess, LastId

\* As long as no handler fails between a commit and the high water, no
\* committed segment is ever out of a reader's reach, whatever the clock does.
THEOREM SegmentsStayOrdered ==
  ASSUME NoEarlyCrash
  PROVE  Spec => []SegmentsOrdered
<1>1. Init => OrderInv
  BY DEF Init, OrderInv, Threads
<1>2. TypeOK /\ TypeOK' /\ EntryLock /\ OrderInv /\ [Next]_vars => OrderInv'
  BY OrderInvNext
<1>. QED
  BY <1>1, <1>2, OrderInvOrders, TypeCorrect, EntryLockHeld, PTL DEF Spec

-----------------------------------------------------------------------------
(* Ids                                                                     *)

\* A step that leaves the log alone keeps its ids apart.
LEMMA IdsLandOnceStable ==
  ASSUME IdsLandOnce, UNCHANGED log
  PROVE  IdsLandOnce'
BY Zenon DEF IdsLandOnce

\* So does one that also leaves the marks, and whoever is about to mark, alone.
LEMMA LogIdsMarkedStable ==
  ASSUME LogIdsMarked, UNCHANGED <<log, seen>>,
         \A u \in IngestThreads : pc[u] = "mark" => pc'[u] = "mark" /\ batch'[u] = batch[u]
  PROVE  LogIdsMarked'
<1>1. ASSUME NEW tb \in Tables, NEW i \in 1 .. Len(log[tb])
      PROVE  \/ SegIds(log[tb][i]) \subseteq seen[log[tb][i].chunk.load]
             \/ \E u \in IngestThreads :
                  /\ pc'[u] = "mark"
                  /\ batch'[u].chunk.load = log[tb][i].chunk.load
                  /\ SegIds(log[tb][i]) \subseteq SegIds(batch'[u])
  <2>1. CASE SegIds(log[tb][i]) \subseteq seen[log[tb][i].chunk.load]
    BY <2>1
  <2>2. ASSUME NEW u \in IngestThreads, pc[u] = "mark",
               batch[u].chunk.load = log[tb][i].chunk.load,
               SegIds(log[tb][i]) \subseteq SegIds(batch[u])
        PROVE  /\ pc'[u] = "mark"
               /\ batch'[u].chunk.load = log[tb][i].chunk.load
               /\ SegIds(log[tb][i]) \subseteq SegIds(batch'[u])
    <3>1. pc'[u] = "mark" /\ batch'[u] = batch[u]
      BY <2>2
    <3>. QED
      BY <2>2, <3>1
  <2>. QED
    BY <2>1, <2>2 DEF LogIdsMarked
<1>2. \A tb \in Tables : \A i \in 1 .. Len(log'[tb]) :
        \/ SegIds(log'[tb][i]) \subseteq seen'[log'[tb][i].chunk.load]
        \/ \E u \in IngestThreads :
             /\ pc'[u] = "mark"
             /\ batch'[u].chunk.load = log'[tb][i].chunk.load
             /\ SegIds(log'[tb][i]) \subseteq SegIds(batch'[u])
  BY <1>1, Zenon
<1>. QED
  BY <1>2 DEF LogIdsMarked

\* The marks and the log agree at every step, when no handler fails between
\* the commit and the mark.
LEMMA IdsInvNext ==
  ASSUME NoCrashBeforeMark, TypeOK, TypeOK', EntryLock, IdsInv, [Next]_vars
  PROVE  IdsInv'
<1>. BatchIdsNew /\ LogIdsMarked /\ IdsLandOnce
  BY DEF IdsInv
<1>1. CASE Quiet
  <2>1. BatchIdsNew'
    BY <1>1 DEF Quiet, BatchesStay, HasBatch, BatchIdsNew
  <2>2. LogIdsMarked'
    <3>1. \A u \in IngestThreads :
            pc[u] = "mark" => pc'[u] = "mark" /\ batch'[u] = batch[u]
      BY <1>1 DEF Quiet, BatchesStay, HasBatch
    <3>. QED
      BY <1>1, <3>1, LogIdsMarkedStable DEF Quiet
  <2>3. IdsLandOnce'
    BY <1>1, IdsLandOnceStable DEF Quiet
  <2>. QED
    BY <2>1, <2>2, <2>3 DEF IdsInv
<1>2. ASSUME NEW t \in IngestThreads, Admit(t)
      PROVE  IdsInv'
  <2>1. UNCHANGED <<log, seen>>
    BY <1>2 DEF Admit
  <2>2. BatchIdsNew'
    <3>1. SegIds(batch'[t]) \cap seen[batch'[t].chunk.load] = {}
      BY <1>2, AdmitBuilds DEF SegIds, KeptRows
    <3>. QED
      BY <1>2, <2>1, <3>1, AdmitBuilds DEF BatchIdsNew
  <2>3. LogIdsMarked'
    <3>1. \A u \in IngestThreads :
            pc[u] = "mark" => pc'[u] = "mark" /\ batch'[u] = batch[u]
      BY <1>2, AdmitBuilds
    <3>. QED
      BY <2>1, <3>1, LogIdsMarkedStable
  <2>4. IdsLandOnce'
    BY <2>1, IdsLandOnceStable
  <2>. QED
    BY <2>2, <2>3, <2>4 DEF IdsInv
<1>3. ASSUME NEW t \in IngestThreads, Commit(t)
      PROVE  IdsInv'
  <2>. DEFINE b == batch[t]
  <2>1. pc[t] = "commit" /\ HasBatch(t) /\ UNCHANGED <<seen, batch>>
    BY <1>3 DEF Commit, HasBatch
  <2>2. pc' = [pc EXCEPT ![t] = "mark"]
    BY <1>3 DEF Commit, PassOrCrash, Goto, NoCrashBeforeMark
  <2>3. pc'[t] = "mark" /\ \A u \in IngestThreads : pc'[u] # "commit"
    BY <2>1, <2>2, LogTypes, OnlyHolder DEF HasBatch, Threads
  <2>4. \A tb \in Tables : \A i \in 1 .. Len(log[tb]) :
          SegIds(log[tb][i]) \subseteq seen[log[tb][i].chunk.load]
    BY <2>1, OnlyHolder DEF LogIdsMarked, HasBatch
  <2>5. SegIds(b) \cap seen[b.chunk.load] = {}
    BY <2>1 DEF BatchIdsNew
  <2>6. \A tb \in Tables : \A i \in 1 .. Len(log'[tb]) :
          \/ i \in 1 .. Len(log[tb]) /\ log'[tb][i] = log[tb][i]
          \/ i = Len(log[tb]) + 1 /\ tb = b.chunk.table /\ log'[tb][i] = b
    BY <1>3, CommitAppends
  <2>7. ASSUME NEW tb \in Tables, NEW tc \in Tables,
               NEW i \in 1 .. Len(log'[tb]), NEW j \in 1 .. Len(log'[tc]),
               log'[tb][i].chunk.load = log'[tc][j].chunk.load
        PROVE  \/ tb = tc /\ i = j
               \/ SegIds(log'[tb][i]) \cap SegIds(log'[tc][j]) = {}
    <3>1. CASE /\ i \in 1 .. Len(log[tb]) /\ log'[tb][i] = log[tb][i]
               /\ j \in 1 .. Len(log[tc]) /\ log'[tc][j] = log[tc][j]
      <4>1. \/ tb = tc /\ i = j
            \/ SegIds(log[tb][i]) \cap SegIds(log[tc][j]) = {}
        BY <2>7, <3>1 DEF IdsLandOnce
      <4>. QED
        BY <3>1, <4>1
    <3>2. CASE /\ i \in 1 .. Len(log[tb]) /\ log'[tb][i] = log[tb][i]
               /\ log'[tc][j] = b
      BY <2>4, <2>5, <2>7, <3>2
    <3>3. CASE /\ log'[tb][i] = b
               /\ j \in 1 .. Len(log[tc]) /\ log'[tc][j] = log[tc][j]
      BY <2>4, <2>5, <2>7, <3>3
    <3>. QED
      BY <2>6, <3>1, <3>2, <3>3
  <2>8. IdsLandOnce'
    BY <2>7 DEF IdsLandOnce
  <2>9. LogIdsMarked'
    <3>1. \A tb \in Tables : \A i \in 1 .. Len(log'[tb]) :
            \/ SegIds(log'[tb][i]) \subseteq seen'[log'[tb][i].chunk.load]
            \/ /\ pc'[t] = "mark"
               /\ batch'[t].chunk.load = log'[tb][i].chunk.load
               /\ SegIds(log'[tb][i]) \subseteq SegIds(batch'[t])
      BY <2>1, <2>3, <2>4, <2>6
    <3>. QED
      BY <3>1 DEF LogIdsMarked
  <2>10. BatchIdsNew'
    BY <2>3 DEF BatchIdsNew
  <2>. QED
    BY <2>8, <2>9, <2>10 DEF IdsInv
<1>4. ASSUME NEW t \in IngestThreads, Mark(t)
      PROVE  IdsInv'
  <2>. DEFINE b == batch[t]
  <2>1. UNCHANGED <<log, batch>> /\ pc[t] = "mark" /\ HasBatch(t) /\ b \in BatchType
    BY <1>4, LogTypes DEF Mark, HasBatch
  <2>2. /\ seen'[b.chunk.load] = seen[b.chunk.load] \cup SegIds(b)
        /\ \A l \in Loads : seen[l] \subseteq seen'[l]
    BY <1>4, <2>1, BatchFields, LogTypes DEF Mark
  <2>3. \A u \in IngestThreads : pc'[u] # "commit"
    BY <1>4, <2>1, LogTypes, OnlyHolder DEF Mark, PassOrCrash, Goto, HasBatch, Threads
  <2>4. ASSUME NEW tb \in Tables, NEW i \in 1 .. Len(log[tb])
        PROVE  SegIds(log[tb][i]) \subseteq seen'[log[tb][i].chunk.load]
    <3>1. log[tb][i].chunk.load \in Loads
      BY LogTypes, BatchFields
    <3>2. \/ SegIds(log[tb][i]) \subseteq seen[log[tb][i].chunk.load]
          \/ b.chunk.load = log[tb][i].chunk.load /\ SegIds(log[tb][i]) \subseteq SegIds(b)
      BY <2>1, OnlyHolder DEF LogIdsMarked, HasBatch
    <3>. QED
      BY <2>2, <3>1, <3>2
  <2>5. LogIdsMarked'
    BY <2>1, <2>4 DEF LogIdsMarked
  <2>6. IdsLandOnce'
    BY <2>1, IdsLandOnceStable
  <2>7. BatchIdsNew'
    BY <2>3 DEF BatchIdsNew
  <2>. QED
    BY <2>5, <2>6, <2>7 DEF IdsInv
<1>5. ASSUME NEW t \in IngestThreads, Record(t)
      PROVE  IdsInv'
  <2>1. UNCHANGED <<log, seen, batch>> /\ pc[t] = "record"
    BY <1>5 DEF Record
  <2>2. pc'[t] = "release" /\ \A u \in IngestThreads : u # t => pc'[u] = pc[u]
    BY <1>5, LogTypes DEF Record, Goto, Threads
  <2>. \A u \in IngestThreads : pc[u] = "mark" => pc'[u] = "mark" /\ batch'[u] = batch[u]
    BY <2>1, <2>2
  <2>3. IdsLandOnce'
    BY <2>1, IdsLandOnceStable
  <2>4. BatchIdsNew'
    BY <2>1, <2>2 DEF BatchIdsNew
  <2>5. LogIdsMarked'
    BY <2>1, <2>2, LogIdsMarkedStable
  <2>. QED
    BY <2>3, <2>4, <2>5 DEF IdsInv
<1>. QED
  BY <1>1, <1>2, <1>3, <1>4, <1>5, WorkOrQuiet

\* However requests interleave, repeat or fail after the mark, no id of a
\* load is in two segments.
THEOREM IdsLandAtMostOnce ==
  ASSUME NoCrashBeforeMark
  PROVE  Spec => []IdsLandOnce
<1>1. Init => IdsInv
  BY DEF Init, IdsInv, BatchIdsNew, LogIdsMarked, IdsLandOnce, Threads
<1>2. TypeOK /\ TypeOK' /\ EntryLock /\ IdsInv /\ [Next]_vars => IdsInv'
  BY IdsInvNext
<1>3. IdsInv => IdsLandOnce
  BY DEF IdsInv
<1>. QED
  BY <1>1, <1>2, <1>3, TypeCorrect, EntryLockHeld, PTL DEF Spec

-----------------------------------------------------------------------------
(* Acknowledged rows                                                       *)

\* The log only grows.
LogGrows ==
  \A tb \in Tables : \A i \in 1 .. Len(log[tb]) :
    i \in 1 .. Len(log'[tb]) /\ log'[tb][i] = log[tb][i]

\* What a table's log holds at a position, it holds there for ever: only a
\* commit changes a log, and it appends.
LEMMA LogOnlyGrows ==
  ASSUME TypeOK, TypeOK', [Next]_vars
  PROVE  LogGrows
<1>1. CASE UNCHANGED log
  BY <1>1 DEF LogGrows
<1>2. ASSUME NEW t \in IngestThreads, Commit(t)
      PROVE  LogGrows
  BY <1>2, CommitAppends DEF LogGrows
<1>. QED
  BY <1>1, <1>2, WorkOrQuiet DEF Quiet, Admit, Mark, Record

\* So a row that has landed stays landed, and a chunk too.
LEMMA StaysLanded ==
  ASSUME LogGrows, NEW c \in Chunks
  PROVE  /\ \A i : RowLanded(c, i) => RowLanded(c, i)'
         /\ Landed(c) => Landed(c)'
<1>1. c.table \in Tables
  BY ChunksAssumption DEF ChunkType
<1>2. ASSUME NEW i, RowLanded(c, i)
      PROVE  RowLanded(c, i)'
  <2>1. PICK j \in 1 .. Len(log[c.table]) :
          /\ log[c.table][j].chunk.load = c.load
          /\ \E k \in log[c.table][j].kept : log[c.table][j].chunk.rows[k] = c.rows[i]
    BY <1>2 DEF RowLanded
  <2>2. j \in 1 .. Len(log'[c.table]) /\ log'[c.table][j] = log[c.table][j]
    BY <1>1 DEF LogGrows
  <2>. QED
    BY <2>1, <2>2 DEF RowLanded
<1>. QED
  BY <1>2 DEF Landed

\* Steps that add no mark and no ledger entry keep what is said of them.
LEMMA MarksLandedStable ==
  ASSUME MarksLanded, LogGrows, UNCHANGED seen
  PROVE  MarksLanded'
<1>. SUFFICES ASSUME NEW l \in Loads, NEW id \in seen[l]
              PROVE  \E c \in Chunks : \E i \in DOMAIN c.rows :
                       c.load = l /\ DltId[c.rows[i]] = id /\ RowLanded(c, i)'
  BY DEF MarksLanded
<1>1. PICK c \in Chunks : \E i \in DOMAIN c.rows :
        c.load = l /\ DltId[c.rows[i]] = id /\ RowLanded(c, i)
  BY DEF MarksLanded
<1>. QED
  BY <1>1, StaysLanded

\* Steps that add no ledger entry keep every recorded chunk landed.
LEMMA LedgerLandedStable ==
  ASSUME LedgerLanded, LogGrows, UNCHANGED ledger
  PROVE  LedgerLanded'
BY StaysLanded DEF LedgerLanded

\* A step that acknowledges nothing new keeps the acknowledgements true.
LEMMA AckedStable ==
  ASSUME AckedChunksLanded, LogGrows, LocalsOK,
         \A u \in IngestThreads :
           reply'[u] \in {"ok", "duplicate"} =>
             /\ chunk'[u] = chunk[u] /\ chunk[u] \in Chunks
             /\ reply[u] \in {"ok", "duplicate"} \/ Landed(chunk[u])'
  PROVE  AckedChunksLanded'
<1>. SUFFICES ASSUME NEW u \in IngestThreads, reply'[u] \in {"ok", "duplicate"}
              PROVE  Landed(chunk[u])'
  BY DEF AckedChunksLanded
<1>1. chunk'[u] = chunk[u] /\ chunk[u] \in Chunks
  OBVIOUS
<1>. DEFINE c == chunk[u]
<1>2. CASE reply[u] \in {"ok", "duplicate"}
  <2>1. Landed(c)
    BY <1>2 DEF AckedChunksLanded
  <2>. QED
    BY <1>1, <2>1, StaysLanded
<1>. QED
  BY <1>1, <1>2

\* What a committing handler leaves in the log: its whole chunk.  A row it did
\* not write has a marked id, and IdNamesRow makes the row that landed under
\* the mark this very row.
LEMMA CommitLands ==
  ASSUME IdNamesRow, TypeOK, MarksLanded, BatchesLanded, LogGrows,
         NEW t \in IngestThreads, Commit(t)
  PROVE  Landed(chunk[t])'
<1>. DEFINE b == batch[t]
            c == chunk[t]
<1>1. /\ b \in BatchType /\ b.chunk = c /\ c \in Chunks
      /\ pc[t] = "commit" /\ chunk' = chunk
  BY CommitAppends, BatchFields DEF Commit, requestVars
<1>2. c.table \in Tables /\ c.load \in Loads /\ c.rows \in Seq(Rows)
  BY <1>1, BatchFields
<1>3. ASSUME NEW i \in DOMAIN c.rows
      PROVE  \E j \in 1 .. Len(log'[c.table]) :
               /\ log'[c.table][j].chunk.load = c.load
               /\ \E k \in log'[c.table][j].kept : log'[c.table][j].chunk.rows[k] = c.rows[i]
  <2>1. CASE i \in b.kept
    <3>. DEFINE j == Len(log[c.table]) + 1
    <3>1. Len(log'[c.table]) = j /\ log'[c.table][j] = b
      BY <1>1, <2>1, CommitAppends
    <3>2. j \in 1 .. Len(log'[c.table])
      BY <1>2, <3>1, LogTypes
    <3>. QED
      BY <1>1, <2>1, <3>1, <3>2
  <2>2. CASE i \notin b.kept
    <3>1. DltId[c.rows[i]] \in seen[c.load]
      BY <1>1, <2>2 DEF BatchesLanded
    <3>a. PICK d \in Chunks : \E k \in DOMAIN d.rows :
            d.load = c.load /\ DltId[d.rows[k]] = DltId[c.rows[i]] /\ RowLanded(d, k)
      BY <1>2, <3>1 DEF MarksLanded
    <3>2. PICK k \in DOMAIN d.rows :
            d.load = c.load /\ DltId[d.rows[k]] = DltId[c.rows[i]] /\ RowLanded(d, k)
      BY <3>a
    <3>3. DltId[c.rows[i]] # None
      BY <1>2, <3>1, LogTypes, RowsAssumption
    <3>4. c.rows[i] = d.rows[k] /\ c.table = d.table
      BY <1>1, <3>2, <3>3 DEF IdNamesRow
    <3>5. PICK j \in 1 .. Len(log[c.table]) :
            /\ log[c.table][j].chunk.load = c.load
            /\ \E m \in log[c.table][j].kept : log[c.table][j].chunk.rows[m] = c.rows[i]
      BY <3>2, <3>4 DEF RowLanded
    <3>6. j \in 1 .. Len(log'[c.table]) /\ log'[c.table][j] = log[c.table][j]
      BY <1>2 DEF LogGrows
    <3>. QED
      BY <3>5, <3>6
  <2>. QED
    BY <2>1, <2>2
<1>4. chunk'[t] = c
  BY <1>1
<1>. QED
  BY <1>3, <1>4 DEF Landed, RowLanded

\* Marks, ledger and acknowledgements never run ahead of the log.
LEMMA LandedInvNext ==
  ASSUME StableChunks, IdNamesRow, TypeOK, TypeOK', EntryLock, LandedInv, [Next]_vars
  PROVE  LandedInv'
<1>. MarksLanded /\ LedgerLanded /\ BatchesLanded /\ AckedChunksLanded
  BY DEF LandedInv
<1>. LogGrows /\ LocalsOK /\ LocalsOK'
  BY LogOnlyGrows DEF TypeOK
<1>a. \A u \in IngestThreads :
        reply'[u] \in {"ok", "duplicate"} /\ chunk'[u] = chunk[u] => chunk[u] \in Chunks
  BY DEF LocalsOK, Threads
<1>1. CASE Quiet
  <2>1. UNCHANGED <<log, seen, ledger>>
    BY <1>1 DEF Quiet
  <2>2. BatchesLanded'
    <3>1. ASSUME NEW u \in IngestThreads, HasBatch(u)'
          PROVE  /\ pc'[u] = pc[u] /\ batch'[u] = batch[u] /\ chunk'[u] = chunk[u]
                 /\ chunk[u] \in Chunks
      BY <1>1, <3>1 DEF Quiet, BatchesStay, LocalsOK, HasBatch
    <3>2. ASSUME NEW u \in IngestThreads, pc'[u] \in {"mark", "record"}
          PROVE  Landed(chunk[u])'
      <4>1. pc[u] \in {"mark", "record"} /\ chunk'[u] = chunk[u] /\ chunk[u] \in Chunks
        BY <3>1, <3>2 DEF HasBatch
      <4>2. Landed(chunk[u])
        BY <4>1 DEF BatchesLanded
      <4>. QED
        BY <4>1, <4>2, StaysLanded
    <3>3. ASSUME NEW u \in IngestThreads, pc'[u] = "commit"
          PROVE  \A i \in (DOMAIN chunk'[u].rows) \ batch'[u].kept :
                   DltId[chunk'[u].rows[i]] \in seen'[chunk'[u].load]
      BY <2>1, <3>1, <3>3 DEF HasBatch, BatchesLanded
    <3>. QED
      BY <3>2, <3>3 DEF BatchesLanded
  <2>3. AckedChunksLanded'
    <3>1. ASSUME NEW u \in IngestThreads, reply'[u] \in {"ok", "duplicate"}
          PROVE  /\ chunk'[u] = chunk[u] /\ chunk[u] \in Chunks
                 /\ reply[u] \in {"ok", "duplicate"} \/ Landed(chunk[u])'
      <4>1. /\ chunk'[u] = chunk[u] /\ chunk[u] \in Chunks
            /\ reply[u] \in {"ok", "duplicate"} \/ LKey(chunk[u]) \in ledger
        BY <1>1, <1>a, <3>1 DEF Quiet
      <4>2. CASE LKey(chunk[u]) \in ledger
        <5>1. Landed(chunk[u])
          BY <4>1, <4>2 DEF LedgerLanded
        <5>. QED
          BY <4>1, <5>1, StaysLanded
      <4>. QED
        BY <4>1, <4>2
    <3>. QED
      BY <3>1, AckedStable
  <2>. QED
    BY <2>1, <2>2, <2>3, MarksLandedStable, LedgerLandedStable DEF LandedInv
<1>2. ASSUME NEW t \in IngestThreads, Admit(t)
      PROVE  LandedInv'
  <2>1. UNCHANGED <<log, seen, ledger, reply, chunk>>
    BY <1>2 DEF Admit, requestVars
  <2>2. BatchesLanded'
    <3>1. \A i \in (DOMAIN chunk[t].rows) \ KeptRows(chunk[t]) :
            DltId[chunk[t].rows[i]] \in seen[chunk[t].load]
      BY DEF KeptRows
    <3>2. ASSUME NEW u \in IngestThreads, pc'[u] \in {"mark", "record"}
          PROVE  Landed(chunk[u])'
      <4>1. pc[u] \in {"mark", "record"} /\ chunk'[u] = chunk[u] /\ chunk[u] \in Chunks
        BY <1>2, <2>1, <3>2, AdmitBuilds DEF LocalsOK
      <4>2. Landed(chunk[u])
        BY <4>1 DEF BatchesLanded
      <4>. QED
        BY <4>1, <4>2, StaysLanded
    <3>3. ASSUME NEW u \in IngestThreads, pc'[u] = "commit"
          PROVE  \A i \in (DOMAIN chunk'[u].rows) \ batch'[u].kept :
                   DltId[chunk'[u].rows[i]] \in seen'[chunk'[u].load]
      BY <1>2, <2>1, <3>1, <3>3, AdmitBuilds DEF BatchesLanded
    <3>. QED
      BY <3>2, <3>3 DEF BatchesLanded
  <2>3. AckedChunksLanded'
    BY <2>1, <1>a, AckedStable
  <2>. QED
    BY <2>1, <2>2, <2>3, MarksLandedStable, LedgerLandedStable DEF LandedInv
<1>3. ASSUME NEW t \in IngestThreads, Commit(t)
      PROVE  LandedInv'
  <2>1. UNCHANGED <<seen, ledger, chunk>> /\ HasBatch(t)
    BY <1>3 DEF Commit, requestVars, HasBatch
  <2>2. Landed(chunk[t])'
    BY <1>3, CommitLands
  <2>3. \A u \in IngestThreads : u # t => ~HasBatch(u)'
    BY <1>3, <2>1, OnlyHolder, LogTypes DEF Commit, PassOrCrash, Goto, HasBatch, Threads
  <2>4. pc'[t] # "commit"
    BY <1>3, LogTypes DEF Commit, PassOrCrash, Goto, Threads
  <2>5. BatchesLanded'
    BY <2>2, <2>3, <2>4 DEF BatchesLanded, HasBatch
  <2>6. \A u \in IngestThreads : reply'[u] \in {"ok", "duplicate"} => reply'[u] = reply[u]
    BY <1>3 DEF Commit, PassOrCrash, Answer, TypeOK, ThreadTypeOK, Threads
  <2>7. AckedChunksLanded'
    BY <2>1, <2>6, <1>a, AckedStable
  <2>. QED
    BY <2>1, <2>5, <2>7, MarksLandedStable, LedgerLandedStable DEF LandedInv
<1>4. ASSUME NEW t \in IngestThreads, Mark(t)
      PROVE  LandedInv'
  <2>. DEFINE b == batch[t]
              c == chunk[t]
  <2>1. /\ UNCHANGED <<log, ledger, chunk, batch>> /\ HasBatch(t) /\ pc[t] = "mark"
        /\ b \in BatchType /\ b.chunk = c
    BY <1>4, LogTypes DEF Mark, requestVars, HasBatch
  <2>2. c \in Chunks /\ Landed(c)
    BY <2>1 DEF BatchesLanded, LocalsOK
  <2>3. Landed(c)' /\ \A i \in DOMAIN c.rows : RowLanded(c, i)
    BY <2>1, <2>2, StaysLanded DEF Landed
  <2>4. seen' = [seen EXCEPT ![c.load] = @ \cup SegIds(b)]
    BY <1>4, <2>1 DEF Mark
  <2>5. MarksLanded'
    <3>1. ASSUME NEW l \in Loads, NEW id \in seen'[l]
          PROVE  \E d \in Chunks : \E i \in DOMAIN d.rows :
                   d.load = l /\ DltId[d.rows[i]] = id /\ RowLanded(d, i)
      <4>1. CASE id \in seen[l]
        BY <4>1 DEF MarksLanded
      <4>2. CASE l = c.load /\ id \in SegIds(b)
        <5>1. PICK i \in b.kept : DltId[c.rows[i]] = id
          BY <2>1, <4>2 DEF SegIds
        <5>2. i \in DOMAIN c.rows
          BY <2>1, BatchFields
        <5>. QED
          BY <2>2, <2>3, <4>2, <5>1, <5>2
      <4>. QED
        BY <2>4, <3>1, <4>1, <4>2, LogTypes
    <3>2. ASSUME NEW l \in Loads, NEW id \in seen'[l]
          PROVE  \E d \in Chunks : \E i \in DOMAIN d.rows :
                   d.load = l /\ DltId[d.rows[i]] = id /\ RowLanded(d, i)'
      BY <3>1, StaysLanded
    <3>. QED
      BY <3>2 DEF MarksLanded
  <2>6. \A u \in IngestThreads : u # t => ~HasBatch(u)'
    BY <1>4, <2>1, OnlyHolder, LogTypes DEF Mark, PassOrCrash, Goto, HasBatch, Threads
  <2>7. pc'[t] # "commit"
    BY <1>4, LogTypes DEF Mark, PassOrCrash, Goto, Threads
  <2>8. BatchesLanded'
    BY <2>3, <2>6, <2>7 DEF BatchesLanded, HasBatch
  <2>9. \A u \in IngestThreads : reply'[u] \in {"ok", "duplicate"} => reply'[u] = reply[u]
    BY <1>4 DEF Mark, PassOrCrash, Answer, TypeOK, ThreadTypeOK, Threads
  <2>10. AckedChunksLanded'
    BY <2>1, <2>9, <1>a, AckedStable
  <2>. QED
    BY <2>1, <2>5, <2>8, <2>10, LedgerLandedStable DEF LandedInv
<1>5. ASSUME NEW t \in IngestThreads, Record(t)
      PROVE  LandedInv'
  <2>. DEFINE c == chunk[t]
  <2>1. /\ UNCHANGED <<log, seen, chunk, batch>> /\ HasBatch(t) /\ pc[t] = "record"
        /\ ledger' = ledger \cup {LKey(c)}
    BY <1>5, LogTypes DEF Record, requestVars, HasBatch
  <2>2. c \in Chunks /\ Landed(c)
    BY <2>1 DEF BatchesLanded, LocalsOK
  <2>3. Landed(c)'
    BY <2>1, <2>2, StaysLanded
  <2>4. LedgerLanded'
    <3>1. ASSUME NEW d \in Chunks, LKey(d) \in ledger'
          PROVE  Landed(d)
      <4>1. CASE LKey(d) \in ledger
        BY <4>1 DEF LedgerLanded
      <4>2. CASE LKey(d) = LKey(c)
        BY <2>2, <4>2 DEF StableChunks
      <4>. QED
        BY <2>1, <3>1, <4>1, <4>2
    <3>2. \A d \in Chunks : LKey(d) \in ledger' => Landed(d)'
      BY <3>1, StaysLanded
    <3>. QED
      BY <3>2 DEF LedgerLanded
  <2>5. \A u \in IngestThreads : ~HasBatch(u)'
    BY <1>5, <2>1, OnlyHolder, LogTypes DEF Record, Goto, HasBatch, Threads
  <2>6. BatchesLanded'
    BY <2>5 DEF BatchesLanded, HasBatch
  <2>7. \A u \in IngestThreads : u # t => reply'[u] = reply[u]
    BY <1>5 DEF Record, Answer, TypeOK, ThreadTypeOK, Threads
  <2>8. AckedChunksLanded'
    BY <2>1, <2>2, <2>3, <2>7, <1>a, AckedStable
  <2>. QED
    BY <2>1, <2>4, <2>6, <2>8, MarksLandedStable DEF LandedInv
<1>. QED
  BY <1>1, <1>2, <1>3, <1>4, <1>5, WorkOrQuiet

\* Whatever fails and wherever, a client that was told its chunk is in finds
\* every row of it in the log, provided a resent chunk has the rows it had and
\* an id stands for one row within its load.
THEOREM AckedMeansLanded ==
  ASSUME StableChunks, IdNamesRow
  PROVE  Spec => []AckedChunksLanded
<1>1. Init => LandedInv
  BY DEF Init, LandedInv, MarksLanded, LedgerLanded, BatchesLanded, AckedChunksLanded, Threads
<1>2. TypeOK /\ TypeOK' /\ EntryLock /\ LandedInv /\ [Next]_vars => LandedInv'
  BY LandedInvNext
<1>3. LandedInv => AckedChunksLanded
  BY DEF LandedInv
<1>. QED
  BY <1>1, <1>2, <1>3, TypeCorrect, EntryLockHeld, PTL DEF Spec

-----------------------------------------------------------------------------
(* The state document                                                      *)

\* Who is about to store a document holds the lock and has compared it with
\* what is stored.
StateInv == \A t \in StateThreads : pc[t] = "store" => doc[t] > dltState

\* What the state document's proofs need of the types.
LEMMA StateTypes ==
  ASSUME TypeOK
  PROVE  /\ dltState \in Nat /\ pc \in [Threads -> Labels] /\ doc \in [StateThreads -> Docs \cup {0}]
         /\ \A t \in StateThreads : pc[t] # "idle" => doc[t] \in Docs
         /\ \A t \in IngestThreads : pc[t] \notin {"compare", "store"}
BY DEF TypeOK, StoreTypeOK, ThreadTypeOK, LocalsOK

\* Every step but those of Compare and Store leaves the document, and the
\* threads that are about to store one, as they are.
LEMMA StateInvNext ==
  ASSUME TypeOK, EntryLock, StateInv, [Next]_vars
  PROVE  StateInv' /\ (dltState' # dltState => dltState' > dltState)
<1>. USE ThreadsAssumption, StateTypes DEF Threads, Goto
<1>1. ASSUME NEW t \in StateThreads, Compare(t)
      PROVE  StateInv' /\ dltState' = dltState
  <2>1. /\ pc[t] = "compare" /\ dltState' = dltState /\ doc' = doc
        /\ pc'[t] = "store" => ~IsStale(doc[t])
        /\ \A u \in StateThreads : u # t => pc'[u] = pc[u]
    BY <1>1 DEF Compare, requestVars
  <2>2. doc[t] \in Nat \ {0}
    BY <2>1, DocsAssumption
  <2>3. ~IsStale(doc[t]) => doc[t] > dltState
    BY <2>2 DEF IsStale
  <2>. QED
    BY <2>1, <2>3 DEF StateInv
<1>2. ASSUME NEW t \in StateThreads, Store(t)
      PROVE  StateInv' /\ dltState' > dltState
  <2>1. /\ pc[t] = "store" /\ dltState' = doc[t] /\ doc' = doc /\ pc'[t] = "release"
        /\ \A u \in StateThreads : u # t => pc'[u] = pc[u]
    BY <1>2 DEF Store, requestVars
  <2>2. \A u \in StateThreads : u # t => pc[u] # "store"
    BY <2>1 DEF EntryLock, Holds
  <2>. QED
    BY <2>1, <2>2 DEF StateInv
<1>3. ASSUME dltState' = dltState,
             \A u \in StateThreads : pc'[u] = "store" => pc[u] = "store" /\ doc'[u] = doc[u]
      PROVE  StateInv'
  BY <1>3 DEF StateInv
<1>4. ASSUME NEW t \in IngestThreads, IngestStep(t)
      PROVE  StateInv' /\ dltState' = dltState
  BY <1>3, <1>4 DEF IngestStep, LedgerCheck, RefuseClosed, Admit, Abort, Commit, Mark, Record,
     PassOrCrash, requestVars
<1>5. ASSUME NEW t \in IngestThreads, NEW c \in Chunks, ArriveIngest(t, c)
      PROVE  StateInv' /\ dltState' = dltState
  BY <1>3, <1>5 DEF ArriveIngest
<1>6. ASSUME NEW t \in StateThreads, NEW v \in Docs, ArriveState(t, v)
      PROVE  StateInv' /\ dltState' = dltState
  BY <1>3, <1>6 DEF ArriveState
<1>7. ASSUME NEW t \in Threads, LockStep(t)
      PROVE  StateInv' /\ dltState' = dltState
  BY <1>3, <1>7 DEF LockStep, ClaimRefused, Claim, Release, Finish, requestVars
<1>8. ASSUME NEW l \in Loads, CompleteLoad(l)
      PROVE  StateInv' /\ dltState' = dltState
  BY <1>3, <1>8 DEF CompleteLoad, requestVars
<1>9. CASE Pause \/ UNCHANGED vars
  BY <1>3, <1>9 DEF Pause, vars, requestVars
<1>. QED
  BY <1>1, <1>2, <1>4, <1>5, <1>6, <1>7, <1>8, <1>9 DEF Next, StateStep

\* However many machines write the document at once, the stored version never
\* goes back: the comparison holds until the store because of the lock.
THEOREM StateAdvances == Spec => StateOnlyAdvances
<1>1. Init => StateInv
  BY ThreadsAssumption DEF Init, StateInv, Threads
<1>2. TypeOK /\ EntryLock /\ StateInv /\ [Next]_vars =>
        StateInv' /\ [dltState' # dltState => dltState' > dltState]_vars
  BY StateInvNext
<1>. QED
  BY <1>1, <1>2, TypeCorrect, EntryLockHeld, PTL DEF Spec, StateOnlyAdvances

-----------------------------------------------------------------------------
(* The job window                                                          *)

\* A list of jobs within the window, no job twice in a row.
IsWindow(order) ==
  /\ Len(order) <= Window
  /\ \A i \in 1 .. Len(order) - 1 : order[i] # order[i + 1]

\* The list is still one after any arrival, and ends with the job that came.
LEMMA TrackKeepsWindow ==
  ASSUME NEW order \in Seq(Jobs), NEW j \in Jobs, IsWindow(order)
  PROVE  LET new == TrackJobArrival(order, j) IN IsWindow(new) /\ new[Len(new)] = j
<1>. DEFINE new == TrackJobArrival(order, j)
            long == Append(order, j)
<1>0. Len(order) \in Nat /\ Window \in Nat \ {0}
  BY WindowAssumption
<1>1. CASE IsContinuation(order, j)
  BY <1>1 DEF TrackJobArrival, IsContinuation
<1>2. CASE ~IsContinuation(order, j)
  <2>1. new = KeepLast(long)
    BY <1>2 DEF TrackJobArrival
  <2>2. /\ long \in Seq(Jobs) /\ Len(long) = Len(order) + 1 /\ long[Len(order) + 1] = j
        /\ \A i \in 1 .. Len(order) : long[i] = order[i]
    OBVIOUS
  <2>3. \A i \in 1 .. Len(long) - 1 : long[i] # long[i + 1]
    <3>1. ASSUME NEW i \in 1 .. Len(long) - 1
          PROVE  long[i] # long[i + 1]
      <4>1. CASE i < Len(order)
        BY <1>0, <2>2, <4>1 DEF IsWindow
      <4>2. CASE i = Len(order)
        <5>1. order # <<>>
          BY <4>2, <3>1
        <5>. QED
          BY <1>0, <1>2, <2>2, <4>2, <5>1 DEF IsContinuation
      <4>. QED
        BY <1>0, <2>2, <4>1, <4>2
    <3>. QED
      BY <3>1
  <2>. DEFINE first == IF Len(long) > Window THEN Len(long) - Window + 1 ELSE 1
  <2>4. first \in 1 .. Len(long) /\ Len(long) - first + 1 <= Window /\ Len(long) \in Nat
    BY <1>0, <2>2 DEF IsWindow
  <2>5. new = SubSeq(long, first, Len(long))
    BY <2>1 DEF KeepLast
  <2>6. /\ Len(new) = Len(long) - first + 1
        /\ \A i \in 1 .. Len(new) : new[i] = long[first + i - 1]
    <3>1. \A i \in first .. Len(long) : long[i] \in Jobs
      BY <2>2, <2>4
    <3>. HIDE DEF first, long, new
    <3>. QED
      BY <2>4, <2>5, <3>1, SubSeqProperties
  <2>7. Len(new) \in Nat \ {0} /\ Len(new) <= Window
    BY <2>4, <2>6
  <2>8. \A i \in 1 .. Len(new) - 1 : new[i] # new[i + 1]
    <3>1. ASSUME NEW i \in 1 .. Len(new) - 1
          PROVE  new[i] # new[i + 1]
      <4>. HIDE DEF first, new, long
      <4>1. i \in 1 .. Len(new) /\ i + 1 \in 1 .. Len(new) /\ first + i - 1 \in 1 .. Len(long) - 1
        BY <2>4, <2>6, <2>7
      <4>2. new[i] = long[first + i - 1] /\ new[i + 1] = long[(first + i - 1) + 1]
        BY <2>4, <2>6, <4>1
      <4>. QED
        BY <2>3, <4>1, <4>2
    <3>. QED
      BY <3>1
  <2>9. new[Len(new)] = j
    <3>. HIDE DEF first, new, long
    <3>1. first + Len(new) - 1 = Len(long) /\ Len(new) \in 1 .. Len(new)
      BY <2>4, <2>6, <2>7
    <3>. QED
      BY <2>2, <2>6, <3>1
  <2>. QED
    BY <2>7, <2>8, <2>9 DEF IsWindow
<1>. QED
  BY <1>1, <1>2

\* Only Admit changes a list, and what it leaves ends with its own job until
\* its thread has given the lock back.
LEMMA JobWindowNext ==
  ASSUME TypeOK, TypeOK', EntryLock, JobWindowOK, [Next]_vars
  PROVE  JobWindowOK'
<1>1. ASSUME NEW t \in IngestThreads, Admit(t)
      PROVE  JobWindowOK'
  <2>. DEFINE c == chunk[t]
  <2>1. /\ c \in Chunks /\ batch'[t].chunk = c /\ pc[t] = "admit" /\ HasBatch(t)'
        /\ \A u \in IngestThreads : u # t => batch'[u] = batch[u] /\ pc'[u] = pc[u]
    BY <1>1, AdmitBuilds DEF HasBatch
  <2>2. c.table \in Tables /\ c.job \in Jobs
    BY <2>1, ChunksAssumption DEF ChunkType
  <2>3. jobOrder \in [Tables -> Seq(Jobs)]
    BY DEF TypeOK, StoreTypeOK
  <2>4. /\ jobOrder'[c.table] = TrackJobArrival(jobOrder[c.table], c.job)
        /\ \A tb \in Tables : tb # c.table => jobOrder'[tb] = jobOrder[tb]
    BY <1>1, <2>2, <2>3 DEF Admit
  <2>5. \A tb \in Tables : IsWindow(jobOrder[tb]) /\ jobOrder[tb] \in Seq(Jobs)
    BY <2>3 DEF JobWindowOK, IsWindow
  <2>6. IsWindow(jobOrder'[c.table]) /\ jobOrder'[c.table][Len(jobOrder'[c.table])] = c.job
    BY <2>2, <2>4, <2>5, TrackKeepsWindow
  <2>7. \A u \in IngestThreads : u # t => ~HasBatch(u)'
    BY <2>1 DEF EntryLock, Holds, HasBatch, Threads
  <2>8. ASSUME NEW tb \in Tables
        PROVE  /\ IsWindow(jobOrder'[tb])
               /\ \A u \in IngestThreads : HasBatch(u)' /\ batch'[u].chunk.table = tb
                    => jobOrder'[tb][Len(jobOrder'[tb])] = batch'[u].chunk.job
    BY <2>1, <2>4, <2>5, <2>6, <2>7
  <2>. QED
    BY <2>8 DEF JobWindowOK, IsWindow
<1>2. ASSUME UNCHANGED jobOrder,
             \A u \in IngestThreads : HasBatch(u)' => HasBatch(u) /\ batch'[u] = batch[u]
      PROVE  JobWindowOK'
  BY <1>2 DEF JobWindowOK
<1>3. CASE Quiet /\ UNCHANGED jobOrder
  BY <1>2, <1>3 DEF Quiet, BatchesStay
<1>4. ASSUME NEW t \in IngestThreads, Commit(t) \/ Mark(t) \/ Record(t)
      PROVE  JobWindowOK'
  <2>1. UNCHANGED <<jobOrder, batch>> /\ HasBatch(t)
    BY <1>4 DEF Commit, Mark, Record, HasBatch
  <2>2. \A u \in IngestThreads : u # t => pc'[u] = pc[u]
    BY <1>4, LogTypes DEF Commit, Mark, Record, PassOrCrash, Goto, Threads
  <2>. QED
    BY <1>2, <2>1, <2>2 DEF HasBatch
<1>5. \/ UNCHANGED jobOrder
      \/ \E t \in IngestThreads : Admit(t)
  BY DEF Next, IngestStep, StateStep, LockStep, ArriveIngest, ArriveState, LedgerCheck, RefuseClosed,
     Abort, Commit, Mark, Record, Compare, Store, ClaimRefused, Claim, Release, Finish, CompleteLoad,
     Pause, vars, ingestVars, requestVars
<1>. QED
  BY <1>1, <1>3, <1>4, <1>5, WorkOrQuiet

\* A table's list never holds more than the window, whoever sends and in what
\* order, and the one who is inside the lock is at its end.
THEOREM JobWindowKept == Spec => []JobWindowOK
<1>1. Init => JobWindowOK
  BY WindowAssumption DEF Init, JobWindowOK, HasBatch, Threads
<1>2. TypeOK /\ TypeOK' /\ EntryLock /\ JobWindowOK /\ [Next]_vars => JobWindowOK'
  BY JobWindowNext
<1>. QED
  BY <1>1, <1>2, TypeCorrect, EntryLockHeld, PTL DEF Spec

-----------------------------------------------------------------------------
(* A closed load is final                                                  *)

\* l is closed and nobody is inside the lock with a batch of it.
Final(l) == l \in closed /\ \A t \in IngestThreads : HasBatch(t) => batch[t].chunk.load # l

\* With the lock free nobody is inside.
LEMMA FreeMeansFinal ==
  ASSUME EntryLock, NEW l \in closed, item.invoke_semaphore = 1
  PROVE  Final(l)
BY DEF EntryLock, Holds, HasBatch, Threads, Final

\* A load's segments are counted by where they are.
LEMMA SegmentsStay ==
  ASSUME NEW l,
         \A tb \in Tables : \A i \in 1 .. MaxArrivals :
           i <= Len(log'[tb]) /\ log'[tb][i].chunk.load = l
             <=> i <= Len(log[tb]) /\ log[tb][i].chunk.load = l
  PROVE  SegmentsOf(l)' = SegmentsOf(l)
<1>. DEFINE here == {p \in Tables \X (1 .. MaxArrivals) :
                       p[2] <= Len(log[p[1]]) /\ log[p[1]][p[2]].chunk.load = l}
            there == {p \in Tables \X (1 .. MaxArrivals) :
                        p[2] <= Len(log'[p[1]]) /\ log'[p[1]][p[2]].chunk.load = l}
<1>1. here = there
  OBVIOUS
<1>. QED
  BY <1>1 DEF SegmentsOf

\* Nothing is added to a load that is final, and it stays so: a chunk of it
\* that gets the lock is refused.
LEMMA FinalNext ==
  ASSUME TypeOK, TypeOK', NEW l \in Loads, Final(l), [Next]_vars
  PROVE  Final(l)' /\ SegmentsOf(l)' = SegmentsOf(l)
<1>1. closed \subseteq closed'
  BY DEF Next, IngestStep, StateStep, LockStep, ArriveIngest, ArriveState, LedgerCheck, RefuseClosed,
     Admit, Abort, Commit, Mark, Record, Compare, Store, ClaimRefused, Claim, Release, Finish,
     CompleteLoad, Pause, vars, ingestVars, requestVars
<1>2. CASE Quiet
  <2>1. Final(l)'
    BY <1>1, <1>2 DEF Quiet, BatchesStay, Final
  <2>2. SegmentsOf(l)' = SegmentsOf(l)
    BY <1>2, SegmentsStay DEF Quiet
  <2>. QED
    BY <2>1, <2>2
<1>3. ASSUME NEW t \in IngestThreads, Admit(t)
      PROVE  Final(l)' /\ SegmentsOf(l)' = SegmentsOf(l)
  <2>1. chunk[t].load # l
    BY <1>3 DEF Admit, LoadClosed, Final
  <2>2. Final(l)'
    BY <1>1, <1>3, <2>1, AdmitBuilds DEF Final, HasBatch
  <2>3. log' = log
    BY <1>3 DEF Admit
  <2>. QED
    BY <2>2, <2>3, SegmentsStay
<1>4. ASSUME NEW t \in IngestThreads, Commit(t)
      PROVE  Final(l)' /\ SegmentsOf(l)' = SegmentsOf(l)
  <2>1. HasBatch(t) /\ batch' = batch
    BY <1>4 DEF Commit, HasBatch
  <2>2. \A u \in IngestThreads : HasBatch(u)' => HasBatch(u)
    BY <1>4, <2>1, LogTypes DEF Commit, PassOrCrash, Goto, HasBatch, Threads
  <2>3. Final(l)'
    BY <1>1, <2>1, <2>2 DEF Final
  <2>4. batch[t].chunk.load # l
    BY <2>1 DEF Final
  <2>5. ASSUME NEW tb \in Tables, NEW i \in 1 .. MaxArrivals
        PROVE  i <= Len(log'[tb]) /\ log'[tb][i].chunk.load = l
                 <=> i <= Len(log[tb]) /\ log[tb][i].chunk.load = l
    <3>1. Len(log[tb]) \in Nat /\ Len(log'[tb]) \in Nat
      BY LogTypes DEF TypeOK, StoreTypeOK
    <3>2. i <= Len(log[tb]) => i <= Len(log'[tb]) /\ log'[tb][i] = log[tb][i]
      BY <1>4, <3>1, CommitAppends
    <3>3. i <= Len(log'[tb]) => i <= Len(log[tb]) \/ log'[tb][i] = batch[t]
      BY <1>4, <3>1, CommitAppends
    <3>. QED
      BY <2>4, <3>2, <3>3
  <2>. QED
    BY <2>3, <2>5, SegmentsStay
<1>5. ASSUME NEW t \in IngestThreads, Mark(t) \/ Record(t)
      PROVE  Final(l)' /\ SegmentsOf(l)' = SegmentsOf(l)
  <2>1. UNCHANGED <<batch, log>> /\ HasBatch(t)
    BY <1>5 DEF Mark, Record, HasBatch
  <2>2. \A u \in IngestThreads : HasBatch(u)' => HasBatch(u)
    BY <1>5, <2>1, LogTypes DEF Mark, Record, PassOrCrash, Goto, HasBatch, Threads
  <2>3. Final(l)'
    BY <1>1, <2>1, <2>2 DEF Final
  <2>. QED
    BY <2>1, <2>3, SegmentsStay
<1>. QED
  BY <1>2, <1>3, <1>4, <1>5, WorkOrQuiet

\* Once a load is closed and the lock has been free, no segment is ever added
\* to it, by whatever request that is under way or still to come.
THEOREM ClosedLoadsAreFinal == Spec => ClosedLoadIsFinal
<1>1. ASSUME NEW l \in Loads, NEW n \in 0 .. MaxArrivals
      PROVE  Spec => []((l \in closed /\ item.invoke_semaphore = 1 /\ SegmentsOf(l) = n)
                          => [](SegmentsOf(l) = n))
  <2>. DEFINE F == Final(l) /\ SegmentsOf(l) = n
  <2>1. EntryLock /\ l \in closed /\ item.invoke_semaphore = 1 /\ SegmentsOf(l) = n => F
    BY FreeMeansFinal
  <2>2. TypeOK /\ TypeOK' /\ F /\ [Next]_vars => F'
    BY FinalNext
  <2>3. F => SegmentsOf(l) = n
    OBVIOUS
  <2>. HIDE DEF F
  <2>. QED
    BY <2>1, <2>2, <2>3, TypeCorrect, EntryLockHeld, PTL DEF Spec
<1>. QED
  BY <1>1 DEF ClosedLoadIsFinal

-----------------------------------------------------------------------------
(* The service implements the append-only log                              *)

\* A table's facts, as Promise's substitution has them.
FactsIn(s) == [i \in 1 .. Len(s) |-> FactsOf(s[i])]

\* No segments hold no facts.
LEMMA FactsInEmpty == FactsIn(<<>>) = <<>>
BY DEF FactsIn

\* Appending a batch appends its facts.
LEMMA FactsInAppend ==
  ASSUME NEW s \in Seq(BatchType), NEW b \in BatchType
  PROVE  FactsIn(Append(s, b)) = Append(FactsIn(s), FactsOf(b))
<1>. DEFINE Any == {FactsOf(c) : c \in BatchType}
<1>1. FactsIn(s) \in Seq(Any) /\ Len(FactsIn(s)) = Len(s)
  BY DEF FactsIn
<1>2. FactsIn(Append(s, b)) \in Seq(Any) /\ Len(FactsIn(Append(s, b))) = Len(s) + 1
  BY DEF FactsIn
<1>3. \A i \in 1 .. Len(s) + 1 : FactsIn(Append(s, b))[i] = Append(FactsIn(s), FactsOf(b))[i]
  BY <1>1 DEF FactsIn
<1>4. Append(FactsIn(s), FactsOf(b)) \in Seq(Any)
      /\ Len(Append(FactsIn(s), FactsOf(b))) = Len(s) + 1
  BY <1>1
<1>. QED
  BY <1>2, <1>3, <1>4, SeqEqual

\* What is committed comes after all of its table and has no id of its load:
\* the only holder has its batch above the high water and outside the marks,
\* and everything in the log is below the one and inside the other.
LEMMA CommitIsNext ==
  ASSUME NoEarlyCrash, TypeOK, EntryLock, OrderInv, IdsInv, NEW t \in IngestThreads, Commit(t)
  PROVE  /\ \A i \in 1 .. Len(log[batch[t].chunk.table]) :
              log[batch[t].chunk.table][i].ms < batch[t].ms
         /\ \A tc \in Tables : \A i \in 1 .. Len(log[tc]) :
              log[tc][i].chunk.load = batch[t].chunk.load =>
                SegIds(log[tc][i]) \cap SegIds(batch[t]) = {}
<1>. DEFINE b == batch[t]
<1>1. pc[t] = "commit" /\ HasBatch(t) /\ b \in BatchType
  BY CommitAppends DEF Commit
<1>2. b.ms \in Nat /\ b.chunk.table \in Tables /\ b.ms > highWater[b.chunk.table]
  BY <1>1, BatchFields DEF OrderInv
<1>3. \A tb \in Tables : \A i \in 1 .. Len(log[tb]) : log[tb][i].ms <= highWater[tb]
  BY <1>1, OnlyHolder DEF OrderInv, HasBatch
<1>4. \A tb \in Tables : \A i \in 1 .. Len(log[tb]) :
        log[tb][i].ms \in Nat /\ highWater[tb] \in Nat
  BY LogTypes, BatchFields
<1>5. \A tb \in Tables : \A i \in 1 .. Len(log[tb]) :
        SegIds(log[tb][i]) \subseteq seen[log[tb][i].chunk.load]
  BY <1>1, OnlyHolder DEF IdsInv, LogIdsMarked, HasBatch
<1>6. SegIds(b) \cap seen[b.chunk.load] = {}
  BY <1>1 DEF IdsInv, BatchIdsNew
<1>7. \A i \in 1 .. Len(log[b.chunk.table]) : log[b.chunk.table][i].ms < b.ms
  BY <1>2, <1>3, <1>4
<1>8. \A tc \in Tables : \A i \in 1 .. Len(log[tc]) :
        log[tc][i].chunk.load = b.chunk.load => SegIds(log[tc][i]) \cap SegIds(b) = {}
  BY <1>5, <1>6
<1>. QED
  BY <1>7, <1>8

\* Every step of the service is a growth step of the log or leaves it alone.
LEMMA StepKeepsPromise ==
  ASSUME NoEarlyCrash, TypeOK, TypeOK', EntryLock, OrderInv, IdsInv, [Next]_vars
  PROVE  [Promise!Next]_([tb \in Tables |-> FactsIn(log[tb])])
<1>. DEFINE facts == [tb \in Tables |-> FactsIn(log[tb])]
<1>1. ASSUME UNCHANGED log
      PROVE  facts' = facts
  BY <1>1
<1>2. CASE Quiet
  BY <1>1, <1>2 DEF Quiet
<1>3. ASSUME NEW t \in IngestThreads, Admit(t) \/ Mark(t) \/ Record(t)
      PROVE  facts' = facts
  BY <1>1, <1>3 DEF Admit, Mark, Record
<1>4. ASSUME NEW t \in IngestThreads, Commit(t)
      PROVE  Promise!Next \/ facts' = facts
  <2>. DEFINE b == batch[t]
              tb == b.chunk.table
  <2>1. CASE b.kept = {}
    BY <1>1, <1>4, <2>1 DEF Commit
  <2>2. CASE b.kept # {}
    <3>1. b \in BatchType /\ tb \in Tables /\ log \in [Tables -> Seq(BatchType)]
      BY <1>4, CommitAppends, BatchFields, LogTypes
    <3>2. log' = [log EXCEPT ![tb] = Append(@, b)]
      BY <1>4, <2>2 DEF Commit
    <3>3. facts' = [facts EXCEPT ![tb] = Append(@, FactsOf(b))]
      <4>1. FactsIn(log'[tb]) = Append(FactsIn(log[tb]), FactsOf(b))
        BY <3>1, <3>2, FactsInAppend
      <4>2. \A tc \in Tables : tc # tb => FactsIn(log'[tc]) = FactsIn(log[tc])
        BY <3>1, <3>2
      <4>. QED
        BY <3>1, <4>1, <4>2
    <3>4. FactsOf(b) \in {facts'[tb][i] : i \in DOMAIN facts'[tb]}
      <4>1. /\ Len(log[tb]) + 1 \in 1 .. Len(log'[tb])
            /\ log'[tb][Len(log[tb]) + 1] = b
        BY <3>1, <3>2
      <4>2. facts'[tb] = FactsIn(log'[tb])
        BY <3>1
      <4>3. /\ Len(log[tb]) + 1 \in DOMAIN facts'[tb]
            /\ facts'[tb][Len(log[tb]) + 1] = FactsOf(b)
        BY <4>1, <4>2 DEF FactsIn
      <4>. QED
        BY <4>3
    <3>5. Promise!IsNext(tb, FactsOf(b))
      <4>1. /\ \A i \in 1 .. Len(log[tb]) : log[tb][i].ms < b.ms
            /\ \A tc \in Tables : \A i \in 1 .. Len(log[tc]) :
                 log[tc][i].chunk.load = b.chunk.load => SegIds(log[tc][i]) \cap SegIds(b) = {}
        BY <1>4, CommitIsNext
      <4>. QED
        BY <3>1, <4>1 DEF Promise!IsNext, FactsOf
    <3>. QED
      BY <3>1, <3>3, <3>4, <3>5 DEF Promise!Next, Promise!Grow, FactsIn
  <2>. QED
    BY <2>1, <2>2
<1>. QED
  BY <1>2, <1>3, <1>4, WorkOrQuiet

\* As long as no handler fails before it has raised the high water, threads,
\* lock, ledger, marks and clamp together are an append-only log per table,
\* whose batches rise and bring every id of a load once.
THEOREM LogIsImplemented ==
  ASSUME NoEarlyCrash
  PROVE  Spec => KeepsPromise
<1>1. Init => OrderInv /\ IdsInv
  BY DEF Init, OrderInv, IdsInv, BatchIdsNew, LogIdsMarked, IdsLandOnce, Threads
<1>2. TypeOK /\ TypeOK' /\ EntryLock /\ OrderInv /\ [Next]_vars => OrderInv'
  BY OrderInvNext
<1>3. TypeOK /\ TypeOK' /\ EntryLock /\ IdsInv /\ [Next]_vars => IdsInv'
  <2>1. NoCrashBeforeMark
    BY DEF NoEarlyCrash, NoCrashBeforeMark
  <2>. QED
    BY <2>1, IdsInvNext
<1>4. Init => Promise!Init
  BY FactsInEmpty DEF Init, Promise!Init, FactsIn
<1>5. TypeOK /\ TypeOK' /\ EntryLock /\ OrderInv /\ IdsInv /\ [Next]_vars =>
        [Promise!Next]_([tb \in Tables |-> [i \in 1 .. Len(log[tb]) |-> FactsOf(log[tb][i])]])
  BY StepKeepsPromise DEF FactsIn
<1>. QED
  BY <1>1, <1>2, <1>3, <1>4, <1>5, TypeCorrect, EntryLockHeld, PTL
  DEF Spec, KeepsPromise, Promise!Spec
=============================================================================
