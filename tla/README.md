# A verification of dlt-matterbeam

`dlt-matterbeam` is a [dlt](https://dlthub.com) destination that sends the
jobs of a load to the Matterbeam ingest service or to local files, and a command
that deploys a pipeline to the hosted service. This directory holds TLA+ models
of both sides of that protocol and of the command, TLC configurations that check
them on small instances, and TLAPS proofs for every value of their parameters.

The service itself is not part of the repository. What the repository has of
it is `tests/fake_matterbeam`, which is the reference the tests and the client
are written against: state machine, ledger, dedup, clamp, segment store and
reader. "The service" below is that code.

## 1. The system

### Components

| Component | Source | State it keeps | Operations |
|---|---|---|---|
| Entry lock | `tests/fake_matterbeam/server.py` `_PidItem`, `claim`, `release`, `pause` | per pid `update_version`, `invoke_semaphore`, `fsm_state` | claim, release, pause |
| Chunk ingest | `server.py` `ingest` | ledger, `dlt_ids_seen` per load, `high_water_ms` per table, `writer_seq`, counters | one chunk of a job |
| State document | `server.py` `put_dlt_state`, `get_dlt_state` | one versioned document per pid and schema | compare and store, read |
| End of a load | `server.py` `complete_load` | `closed_loads` | close |
| Job window | `server.py` `_track_job_arrival` | last 16 senders per table | flag a job that returns |
| Registration | `server.py` `register` | pid per (pipeline, dataset), collector type | look up, create or adopt |
| Secrets, uploads, builds | `server.py` `submit_secrets` ... `get_build_status` | secrets, unused upload URLs, uploaded package, build status | one request each |
| Segment store | `segment_store.py` | files named by the record id of their last row | write atomically, list after a cursor |
| Reader | `fold.py` | a cursor per table | scan, fold |
| HTTP transport | `src/dlt_matterbeam/transport.py` `HttpTransport` | none but the pid | chunk, state, complete, retry of contention |
| File transport | `transport.py` `FileTransport` | one file per table | append |
| Load jobs | `load_job.py` | position in the job's file | cut the file in chunks, send them from 0 |
| Job client | `client.py` | pid and load of the package | job creation, state sync, completion |
| Envelope | `envelope.py` | none | row to envelope: id, key, order, tombstone |
| Configuration | `configuration.py`, `destinations.py` | none | capabilities, choice of the transport |
| Deploy | `deploy.py`, `cli.py` | none between runs | register, secrets, package, upload, trigger, poll, status |
| Gate | `gate.py` | patches of one process | execute a script up to `Pipeline.run`, classify it |
| dlt loader | external | jobs left to do | run jobs, run them again, give up, complete |

### Interactions

dlt's loader runs the load jobs of a package one at a time. A job cuts its file
into chunks of at most `chunk_records` rows and `chunk_bytes` bytes and sends
each as one request with the key `(load, job, seq)`. The transport repeats a
request only when the service answers `409 lock_contention`; every other
conflict is terminal, everything else makes the loader run the *job* again, from
seq 0. When all jobs are done, the loader calls `complete_load`. The state
document of dlt travels as a job of its own; the next run reads it back, possibly
on another machine. dlt opens a client of its own for each of these, and every
client finds its pid anew.

The service runs one thread per request. A chunk is first looked up in the
ledger (a replay is answered `duplicate`), then needs the entry lock of its
pid, is refused when its load is closed, loses the rows whose `_dlt_id` has
already landed in the load, gets a time stamp above everything in its table,
is committed as one segment, and only then are its ids marked, the high water
raised and the ledger written. Readers list segments by name, which is by
record id, under a cursor that never goes back.

`deploy` executes the script three times in its own process with `Pipeline.run`
patched and `DLT_DATA_DIR` redirected, registers the pipeline it finds, recovers
the secrets of the pipeline's last local run, packages the script's directory,
and makes five requests and a poll.

### What is hard

* **Interleaving.** The ledger check, `complete_load` and `pause` do not take the
  entry lock; they meet a chunk at every point of its way.
* **Partial failure.** A handler can fail between any two of commit, mark, high
  water and ledger (the tests' `_chaos_crash` names three of these points). The
  client then sees a 500 and runs the job again.
* **Lost answers and restarts.** The client gives up a request whose handler goes
  on; the resend overtakes it or waits for its lock. A killed process leaves a torn
  line in a local file.
* **Resends that are not the same.** The user may change the chunk limits between
  two runs of a job; the ledger knows chunks by position only.
* **Order.** A reader never returns below its cursor, so a segment that sorts too
  low is lost to it, whatever the clock, the wrap of `writer_seq` or a failed
  handler do. The state document can be stored before the rows it speaks for.
* **Identity.** Clients resolve the pid separately, from different information.
* **Two machines, two deployers.** One pid, one state document, one package slot.
* **A directory and a script that change under the command**, and a process whose
  globals it patches.

`PROJECT.json` lists each hazard at its line with the properties that would
notice it going wrong.

### What makes each component correct

| Component | Property |
|---|---|
| Entry lock | one holder, whose release always frees it (`EntryLock`); it is given back (`LockIsReturned`) |
| Chunk ingest | record ids rise in commit order (`SegmentsOrdered`); an id lands once per load (`IdsLandOnce`); acknowledged rows are in the log (`AckedChunksLanded`); all of it together is an append-only log (`KeepsPromise`) |
| State document | versions only rise (`StateOnlyAdvances`) |
| End of a load | a closed load is final (`ClosedLoadIsFinal`) |
| Job window | a return is recognised exactly when fewer changes of job than the window holds lie between (`ReturnsRecognised`); the list keeps to its bound, with no job twice in a row and the present one last (`JobWindowOK`) |
| Loader with transport | a completed load is whole, in order and final (`CompletedLoadIsWhole`, `JobLandsInOrder`, `CompletedLoadIsFinal`), its state is kept (`CompletedStateKept`), every load ends (`EveryLoadEnds`) |
| One load job | all rows land however it is cut again (`AllRowsLanded`), twice only where a handler broke off before it marked them (`RowsLandOnce`); a killed process costs a local file at most a row (`OneRowPerTear`); what a reader folds is the file's table (`FoldedSinkIsTable`) |
| Job client | one pid per pipeline (`OnePidPerPipeline`), a load is closed where its rows are (`CompletedLoadClosed`), a restored cursor skips nothing unnoticed (`NoSilentHole`) |
| Reader | it reads a prefix of the commits (`ReplayIsPrefix`) and folds to the last value of every key (`FoldIsLatest`) |
| Deploy, requests | one pid for all (`OnePid`), nothing is built without its package and secrets at least as new as it (`BuildHasPackage`, `BuiltHasSecrets`), no stale result is reported (`ReportIsFresh`), the command ends (`DeployEnds`) |
| Gate | the process is restored (`ProcessIsRestored`), no pipeline is run for real (`RunIsIntercepted`), what was checked is registered as a collector only (`OnlyCollectors`), with its own secrets (`SecretsOfSole`) |
| Package | the manifest tells the truth about the tar file (`ManifestMatchesTar`), its hash does not depend on the walk (`HashIgnoresOrder`), there is one dependency file at the top (`HasRequirements`), and nothing is left out at any depth but what is ignored or cannot be read (`PackageIsDirectory`) |

## 2. The modules

```
ResidualWindow ---- JobArrivals
      |
      |               FactLog (abstract; IngestServer implements it)
      |                  |
     IngestServer -------+-------- IngestServer_proofs
      |      |                        |          |
      |   LoadPipeline -------- LoadPipeline_proofs
      |                                          |
   FactReader -------------------------- FactReader_proofs
      |                                          |
   Ordering ---------------------------- Ordering_proofs
      |                                       |      |
      |--- LoadJob ------------------ LoadJob_proofs |
      |--- Gate, Package                             |
                |                                    |
           DeployLocal ------------------- DeployLocal_proofs

Identity     ------------------------ Identity_proofs
Deploy       ------------------------ Deploy_proofs
```

Each of IngestServer, JobArrivals, LoadPipeline, FactReader, LoadJob, Identity, Deploy
and DeployLocal has an `MC` module with its small instances.

**IngestServer** is the core: one pid of the service and its threads. A thread's
`pc` is its place in the handler, `chunk`, `batch`, `doc` and `version` its
locals, `reply` what it answers. `ArriveIngest` and `ArriveState` are the request
coming in, `LedgerCheck` the replay check, `ClaimRefused`, `Claim` and `Release`
the entry lock, `RefuseClosed`, `Admit`, `Commit`, `Mark` and `Record` the rest of
`ingest`, `Abort` a body that does not parse or a segment that cannot be written,
`Compare` and `Store` the state document, `CompleteLoad` and `Pause` the two
operations that go past the lock. One action is the code between two points
where another thread can see or change something, or where the handler can
fail: `Admit`, for example, is everything from the closed check to the commit,
because all it touches is guarded by the lock. `CrashPoints` says at which of
the three named points a handler may raise. Record ids are
`<<ms, index, writer>>`; the noise after them breaks ties that the clamp rules
out. Rows are opaque, with an id given by `DltId`, or none.

**FactLog** is what the service promises with no threads, lock, ledger or clamp:
per table a sequence of batches that only grows, in which no batch sorts at or
below an earlier one and no id of a load lands twice. `KeepsPromise` maps
`IngestServer`'s log to it.

**ResidualWindow** has the operators of `_track_job_arrival`, used by `Admit`.
**JobArrivals** is the same list with nothing around it: any sequence of calls, with the
calls and the answers kept as history, so that what the flag means can be stated without
the list.

**LoadPipeline** adds the machines: the loader's job loop (external, from how this
package's code is called), the chunk loop of the load job, `_request` with its
budget of tries under contention, and what each answer leads to. It composes
with `IngestServer` through its actions: `Send` is an arrival, `NextChunk`,
`JobDone`, `Contended`, `Refused` and `Transient` are the five ways to take an
answer. `Interrupt` is a lost connection or a machine that dies; the handler
goes on, and its answer is dropped by `DropReply`.

**Ordering** has what the code takes from Python to sort, filter, flatten and add
up, written by what it returns: a list is *the* listing of a set in an order
(`Arranged`), a stable sort the listing of the positions (`SortedBy`), a comprehension
with a condition the listing of the positions that meet it (`Picked`). In this form the
models that sort and fold can be reasoned about; recursion is in functions only.

**FactReader** adds a reader: `Scan` is `fold.scan` with the cursor, `Folded` is
`fold.fold` for a keyed table.

**LoadJob** is one job seen from close: the envelope's operators on rows whose cells carry
type markers, with unknown columns, missing or shared ids, hard deletes and sort hints, the
loop that cuts the rows into chunks (`TakeRow`, `Full`, `Due`), and the two transports. A
marker that is taken off leaves text, and a text sorts and reads as such: what Python's
`str()` and `<` do with a value, and what the column's own order is, are the parameters
`Text`, `Str`, `Below` and `Less`. Keys are compared as `fold()` compares them, as the
texts of their fields joined by commas (`Joined`). A tombstone without a key field cannot
be built, and the chunk it is in is not sent (`SendRaises`). `SendFile` appends lines and can
be killed within one; `SendHttp` has a service reduced to what IngestServer shows it to be
for one job: a ledger of seqs and the set `seen` of marked ids. `Ingest` commits what has no
mark, marks it and records the chunk; `IngestFails` breaks off after the commit or after the
marks, so that a row may be in the log without its mark (`unmarked` remembers where). `Run`
starts the job again with any of the configured limits.

**Identity** abstracts a load to a few steps and models what the others fix: which
transport a configuration leads to, under which name each use of a client
resolves its pid (`NameFor`, `EnsurePid`), the order of the jobs, the state document
with its cursor, machines that are lost and replaced, and completion.

**Deploy** is the deploy command against registration, secrets, uploads and build
status, each atomic under the service's mutex; two users deploy, again and again,
and ask for the status, pipelines register from their own runs, and an external
builder may end builds or not. The value of a secret is the number of the submission it
came with: a later submission replaces the values of the names it has and leaves the others
(`Merged`), and each package remembers the submission that went before it.

**Gate** is the process of the command up to the upload. Scripts are sequences of
statements (make a pipeline, perhaps in a directory of its own or with a name that is
computed, run it in or outside of a `try`, load by itself, raise); the harness executes
them, with the patches of `_run_intercepted`, once for each of the three calls, and the
user may edit the file in between. `Where` is where a pipeline keeps its state, `contacts`
what was done for real and by which pipeline, `checked` the script the gate let through
last. `Located` is the pipeline `recover_secrets` attaches to: the first one in the text, or,
when the text cannot be read, the one with the default name. **Package** is
`build_package`: the walk down the tree of directories (`Parent`), of which symbolic links
and unreadable ones are `Skipped`, and stat, read and manifest as separate steps, with
files written or removed between them. **DeployLocal** is the two in a row, as `deploy()`
calls them.

Names of the form `X_Reason` are deviations of the operator `X` (a dropped guard, an
off-by-one, a missing reset). No action uses them: replacing `X` by one of them
must break the property `PROJECT.json` pairs it with, which shows that the
property depends on that line of the code.

## 3. What the runs check

Run a check with `tlc -config <cfg> <module>`.

| Run | Module, bounds | Question and answer |
|---|---|---|
| `ingest` | MCIngestServer; 2 ingest threads, 1 state thread, 2 tables, 3 jobs of a chunk, 3 requests, failures after the mark or the ledger write, writer ids mod 2, window 2 | Types, the entry lock, the job window, no id in two segments of a load, a closed load does not grow once the lock has been free: hold. |
| `job_window` | MCJobArrivals; 4 jobs, 7 calls, window 3 | Which returns of a job are recognised: exactly those within the window. |
| `reader` | MCFactReader; 2 ingest threads, 3 chunks, 4 requests, clock 0..1, failures after the ledger write | Segments are ordered, the log implements FactLog, the reader reads a prefix of the commits and folds to the latest rows: hold. |
| `pipeline` | MCLoadPipeline; 1 machine, 2 jobs of 2 and 1 chunks and the state job, failures at all points, 2 tries, 2 faults of any kind | What is acknowledged is in the log; a completed load is whole, ordered and final: hold. |
| `two_machines` | MCLoadPipeline; 2 machines, a load of a chunk and its state and a load of its state only, 1 fault, fair | The stored version never goes back, the state a completed load leaves is never taken back, a taken lock is given back, every load ends: hold. |
| `load_job` | MCLoadJob; 28 jobs of at most 4 rows with 2 keys: every hint, both transports, ties, ids shared by the rows of a key, no ids, no keys, decimals to sort by, commas in keys, a tombstone that cannot be built; 3 limits, 3 runs | Which rows land, how often, and to what they fold: hold, see below. |
| `identity` | MCIdentity; 2 machines in 7 setups, 3 pids, 2 rows, 2 loads each | One pid per pipeline, loads closed where their rows are, no cursor that skips rows: hold. |
| `deploy` | MCDeploy; 2 deployers of one pipeline, 2 runs each, 2 pids, 2 polls, 3 secrets of which one is a destination's, fair | One pid; no build without package, or with secrets missing or older than the package's deploy; no stale result reported; a started deploy ends: hold. |
| `deploy_local` | MCDeployLocal; 16 scripts, 1 edit, 4 directories, one inside another, one ignored and one a link, 1 change during the walk | The gate's and the package's properties: hold. |

Why the bounds are enough to meet the interesting cases: two ingest threads are
the least that can race for a lock, replay each other's chunk and be overtaken
by a resend; three requests allow a chunk, its resend and another job's chunk,
and a fourth that job's return. Two clock readings give a clock that stands
still, steps forward and steps back; `ingest` has one reading, because nothing it
checks depends on the clock. Writer ids modulo 2 wrap within these requests (65536 in the code).
In `ingest` two jobs of a table
and a return of the first overflow a window of 2; in `job_window` four jobs and seven
calls go beyond a window of 3 (16 in the code) with repeated calls of one job, with returns
within and beyond it, and with a return to a job that is still in the list from before. Two tries of
`_request` (20 by default) reach both sides of the budget. Two faults let a
handler fail while another, given-up handler still runs. `MaxArrivals` is a bound
that is never reached in the LoadPipeline runs: `MaxFaults` bounds them. Three
runs of a job are a run, one with smaller and one with larger chunks; four rows of
two keys fill chunks by rows and by bytes, and let a row that a handler left unmarked
land again in front of, or behind, a later row of its key. Three pids are one more
than two pipelines need, so a split identity shows. Two loads are one that stores a
cursor and one that resumes from it. Two runs of a deployer leave an upload URL,
a build and stored secrets of the first to meet the second, and the two deployers' secrets
overlap in one name. The scripts of `deploy_local` are every statement in the orders that
lead to different ends of the gate; a script that recurs only repeats its statements. One
change can make a file shorter, longer or gone, or add one, between its listing, stat and
read.

`CHECK_DEADLOCK FALSE` stands where a bound or the end of all loads really stops
the system. Symmetry is over threads of one kind, which do the same things, or
over pids, and only in runs of safety properties (the action properties of
`pipeline` and `reader` do not name what the symmetry permutes).

### What the models showed

* In `load_job`, rows with ids of their own are lost only when some run cuts *larger* chunks
  than one before it: the larger chunk is taken for a replay of the smaller one that had
  its seq. With smaller chunks the seqs that are known stand for more rows than
  they now carry, and those are in the log (`AllRowsLanded` with `Grown`). Where rows share an
  id, as those of a key do under the package's README, one of them is in the log.
* A row with an id is in the log twice exactly where a handler committed it and broke off
  before it marked it: the resend does not know the id (`RowsLandOnce` with `unmarked`).
  `test_chaos_idempotency.py:154-176` documents it, and the fold of the table is not
  changed by it (`FoldedSinkIsTable`).
* Values of a sort hint are compared after their type marker is gone
  (`envelope.py:81-95`), so decimals are sorted as texts: 10 comes before 9, and the row that
  wins the fold is another than the column's type would have it. Keys that hold commas can
  fold into one (`fold.py:49`). `FoldedSinkIsTable` says what holds where neither happens
  (`SortAgrees`, `KeysTellApart`); two jobs of the run, `Decimals` and `Commas`, are outside.
* A killed FileTransport run costs at most the first row of the job: the next run
  continues the torn line with it. All other rows are appended again, and the fold
  of a keyed table is the same.
* With the hint `dedup_sort: desc` and a fold in which the last row wins, the row with
  the smallest value is kept: `ComesAfter` has it that way.
* The high water is raised after the commit (`server.py:375`). If a handler may fail in
  between, `SegmentsOrdered` does not hold: a two-row chunk and then a chunk of one row in
  the same millisecond is enough, since the second starts at index 0 again. That is why
  `reader` has failures after the ledger write only, and why the theorems on order assume
  `NoEarlyCrash`. The tests of the clamp have two requests that succeed.
* The list of the job window has a job once for each arrival after another job, so it
  remembers fewer jobs than entries when they alternate, where `server.py:62` speaks of
  distinct job ids: two jobs taking turns push all others out (`ReturnsRecognised` counts
  changes, not jobs).
* Stored secrets can be newer than the package they are built with: a second deploy has
  replaced them and not uploaded yet. `BuiltHasSecrets` says that they are never older.
* A pause that comes while a request holds the lock is overwritten by that request's
  `release` (`server.py:146`), so a pid that was paused may accept requests again.
  `EntryLock` and `LockIsReturned` hold with it.
* The state of a load may be stored before its rows, or without them when the load is
  given up or its machine lost: `NoSilentHole` holds because it allows the rows of
  such a load to be missing, and no others.
* Only `Pipeline.run` is patched. What a script extracts, normalizes or loads by itself is
  done for real, three times, against its own destination, although `gate.py:1-2` and
  `gate.py:52-54` say that nothing real is contacted. `RunIsIntercepted` says what holds: no
  `run` happens, and such a load does not write its state to the user's `DLT_DATA_DIR`; it
  may write it to a directory the script names.
* Between the second and the third execution the user may edit the script, and
  what is registered then has not been checked (`OnlyCollectors` compares the two scripts:
  `script = checked`).
* A name or directory that is not a literal makes `parse_pipeline_info` give up, and
  `recover_secrets` goes on with the default name (`deploy.py:181-184`): it fails, or finds
  the secrets of whichever pipeline of that name ran last. `SecretsOfSole` is about scripts
  whose text can be read.

### Where code and words disagree

Three runs check a sentence of the repository that the code does not keep; TLC
finds the counterexample.

* `key_hash_ids` (MCIngestServer; 1 thread, 2 chunks of one key): with the
  deterministic `_dlt_id` of the README two versions of a key share an id; the later
  chunk is acknowledged and its row dropped as a duplicate, where the README promises
  an upsert.
* `deploy_report` (MCDeploy; 2 deployers): `cli.py:145` prints "build ready" with this
  deploy's own hash, also when the build that is ready is of another deployer's package,
  whose hash was in the status and dropped (`ReadyHashIsBuilt`). `dlt matterbeam status`
  prints the service's hash and is right.
* `gate_secrets` (MCDeployLocal; scripts with two pipelines): `recover_secrets` relies on
  "the gate already established exactly one collector pipeline exists in this script"
  (`deploy.py:177-179`). The gate looks at the pipeline that is active when the script
  stops; the secrets are those of the first pipeline in the script's text.

### Fairness

`FairPipelineSpec`: each handler thread the server has started runs to its response
(weak fairness of its own steps), and the loader keeps going. The server is a
`ThreadingHTTPServer`, no handler waits for another (the lock is refused, not
waited for), and the mutex is held for short sections. Nothing asks for `Pause`, an
interruption, a request or `CompleteLoad`. `FairSpec` of Deploy only says that the
command goes on; the builder owes it nothing.

## 4. What is proved

Eight modules of proofs, for any number of threads, tables, machines, jobs, chunks,
retries, faults, pids, rows, files, limits, deployers, scripts, edits and directories.
Every invariant and every action property that a run finds to hold is stated by a
theorem, but for `ReturnsRecognised`; liveness is not.

| Theorem | Says | Assumes |
|---|---|---|
| *IngestServer_proofs* | | |
| `TypeCorrect` | `Spec => []TypeOK` | - |
| `EntryLockHeld` | `Spec => []EntryLock` | - |
| `SegmentsStayOrdered` | `Spec => []SegmentsOrdered` | `NoEarlyCrash`: handlers fail after the ledger write at most |
| `IdsLandAtMostOnce` | `Spec => []IdsLandOnce` | `NoCrashBeforeMark` |
| `AckedMeansLanded` | `Spec => []AckedChunksLanded` | `StableChunks`: a chunk sent again has the same rows; `IdNamesRow`: an id names one row of one table in its load |
| `StateAdvances` | `Spec => StateOnlyAdvances` | - |
| `JobWindowKept` | `Spec => []JobWindowOK` | - |
| `ClosedLoadsAreFinal` | `Spec => ClosedLoadIsFinal` | - |
| `LogIsImplemented` | `Spec => KeepsPromise`, the refinement of FactLog | `NoEarlyCrash` |
| *LoadPipeline_proofs* | | |
| `PipelineIsServer` | `PipelineSpec => Spec /\ []ClientInv` | `AnyVersion`: a load may carry any version of the state |
| `ClientTypesHold` | `PipelineSpec => []ClientTypeOK` | `AnyVersion` |
| `CompletedLoadsAreWhole` | `PipelineSpec => []CompletedLoadIsWhole` | `AnyVersion`, `StableChunks`, `IdNamesRow` |
| `CompletedStatesAreKept` | `PipelineSpec => []CompletedStateKept` | `AnyVersion` |
| `JobsLandInOrder` | `PipelineSpec => []JobLandsInOrder` | `AnyVersion`, `StableChunks`, `AllIds`: every row has an id |
| `CompletedLoadsAreFinal` | `PipelineSpec => CompletedLoadIsFinal` | `AnyVersion`, `StableChunks`, `AllIds`, `OneLoadEach`: load ids are not shared |
| *FactReader_proofs* | | |
| `ReaderRunsService` | `ReaderSpec => Spec` | - |
| `ReaderMissesNothing` | `ReaderSpec => []ReplayIsPrefix` | `NoEarlyCrash` |
| `FoldKeepsLatest` | what `Folded` is for any sequence of rows | - |
| `ReaderFoldsLatest` | `ReaderSpec => []FoldIsLatest` | - |
| *LoadJob_proofs* | | |
| `RowsOnce` | `Spec => []RowsLandOnce` | - |
| `OneRowLostAtMost` | `Spec => []OneRowPerTear` | `IdsAreNotKeys`: dlt's own columns are no keys and mark no row as deleted |
| `EveryRowLands` | `Spec => []AllRowsLanded` | `IdsAreNotKeys` |
| `TableIsFolded` | `Spec => []FoldedSinkIsTable` | `IdsAreNotKeys`; `IdsAreUniform`: the rows of a file that goes to the service all have ids, or none has |
| *Identity_proofs* | | |
| `PipelinesHaveOnePid` | `Spec => []OnePidPerPipeline` | - |
| `CompletedLoadsClosed` | `Spec => []CompletedLoadClosed` | - |
| `NoHoles` | `Spec => []NoSilentHole` | - |
| *Deploy_proofs* | | |
| `TypeCorrect` | `Spec => []TypeOK` | - |
| `OnePidForAll` | `Spec => []OnePid` | - |
| `BuildsHavePackages` | `Spec => []BuildHasPackage` | - |
| `ReportsAreFresh` | `Spec => []ReportIsFresh` | - |
| `BuildsHaveSecrets` | `Spec => []BuiltHasSecrets` | - |
| *DeployLocal_proofs* | | |
| `ProcessRestored` | `Spec => []ProcessIsRestored` | - |
| `RunsIntercepted` | `Spec => []RunIsIntercepted` | - |
| `CollectorsOnly` | `Spec => []OnlyCollectors` | - |
| `SoleSecrets` | `Spec => []SecretsOfSole` | - |
| `ManifestDescribesTar` | `Spec => []ManifestMatchesTar` | - |
| `HashIsOfContents` | `Spec => []HashIgnoresOrder` | - |
| `RequirementsPackaged` | `Spec => []HasRequirements` | - |
| `DirectoryPackaged` | `Spec => []PackageIsDirectory` | - |
| *Ordering_proofs* | | |
| `ArrangedIsUnique`, `SortedByIsSorted` | what the listing of a set and the stable sort return | a total order; a strict weak one |
| `FoldExists` | a fold is a function on `0 .. k` | - |

Besides these, the assumptions the modules make of their constants (named
`...Assumption`), which TLC evaluates on every run. Those that say more than a type:
`PathAssumption`, relative paths are totally ordered, as strings are; `ContentsAssumption`,
a content has a size; `CasesAssumption`, a job has at least one column, its file is finite
and so are its rows; `SortAssumption`, Python's `<` is a strict weak order on the
values that a column with a sort hint has in a file, null apart; `PackageAssumption`,
every directory is in the script's or in another one, and `requirements.txt` is packaged;
`GateAssumption` and `ArrivalsAssumption` are types.

The hypotheses are necessary: without `NoEarlyCrash` the order fails as told above,
`key_hash_ids` shows what happens without `IdNamesRow`, and the documented limit in
`tests/integration/test_chaos_idempotency.py:252-257` is the case without
`StableChunks`, which `load_job` explores. Without `NoCrashBeforeMark` the rows of a
failed handler land again, which `test_chaos_idempotency.py` tests as at-least-once
delivery. `IdsAreUniform` is what the client counts on: dlt gives
every row of a table a `_dlt_id`, or none. Without it `FoldedSinkIsTable`
fails: when a chunk that was written is not in the ledger and is sent again, a row
without an id lands behind a later row of its key whose id is known. `IdsAreNotKeys` says
that nobody takes dlt's own columns for keys or delete marks. That ids are distinct is
not assumed: where the id is a hash of the key, two rows of a key share it, and the
properties themselves say what then becomes of the second one (`AllRowsLanded`: the other
one is there; `FoldedSinkIsTable` excludes jobs a row of which was `TakenForAnother`). `AnyVersion` is a
choice of the constants: versions are unbounded in the code, and TLC's runs bound them by `Docs`.

The arguments, for the service:

* *Types.* `TypeOK` is inductive because it also says that a handler's locals are set
  by the label that reads them (`LocalsOK`).
* *Lock.* `EntryLock` is inductive as stated: besides exclusion it ties the semaphore to
  the presence of a holder and the holder's `version` to `update_version`. Without
  the last part a release could be refused and the semaphore stay taken.
* *Order.* `SegmentsOrdered` is not inductive: it does not say why the next segment is
  above the others. `OrderInv` adds that a batch to be committed is above the high
  water of its table, and that everything in the log is at or below the high water
  *or* covered by the holder, which is about to raise it. The second alternative
  is why a failure between commit and high water breaks the order, and why mutual
  exclusion is needed: two batches between commit and high water would not be
  comparable.
* *Ids.* `IdsInv` adds that a batch to be committed has no marked id and that every id
  in the log is marked or about to be marked by the holder.
* *Acknowledgements.* `LandedInv` adds that marks and ledger entries are backed by rows
  in the log, that a batch leaves out only marked rows, and that past the commit
  the whole chunk has landed: a row is acknowledged because it was just committed,
  because its id was marked, or because its chunk was in the ledger.
* *State.* `StateInv`: who is about to store has compared with what is stored now,
  because it has held the lock since.
* *Finality.* `Final(l)` (closed, and no batch of `l` inside the lock) is stable, since a
  new batch passes the closed check after the lock; a free lock and a closed load
  imply it.
* *Reader.* `ReadInOrder`: the cursor is the last record id of what was read, which is a
  prefix of the log. The log is ordered (`OrderInv`), so the segments above the
  cursor are the ones after that prefix, and listing them by name lists them as they
  were committed: `ArrangedIsUnique` makes the listing the rest of the log. That needs no
  assumption about who commits meanwhile, only `NoEarlyCrash`.
* *Refinement.* A step of the service leaves the log alone or is one `Commit`, and
  `OrderInv` and `IdsInv` are what FactLog's `Grow` asks of the batch it adds.

The lock theorem is used in each of them: the step of one thread cannot disturb what
is said of the holder because there is only one.

For the composition: `ClientInv` says that a machine waiting for an answer is served by
a thread that has its very request, and no two machines by one thread. With it every step
of the pipeline is a step of `IngestServer` or leaves the service alone
(`PipelineIsServer`), so the theorems about the service hold in the composition.
`SentNext` says that if a set of chunks only grows and has all that are acknowledged, it
has all that are behind the machines. With the chunks that have landed as the set,
`CompletedLoadIsWhole` follows from `AckedChunksLanded`. With the chunks whose rows are
marked, it is the key to what handlers of given-up requests may still do: `MarkInv` says
that ledger and acknowledgements never run ahead of the marks, and `RequestsInOrder` that
a chunk is only ever in a handler when the ones before it are marked. A marked chunk
writes nothing (`MarkedWritesNothing`), so nothing lands behind a later chunk of its job
and nothing is added to a completed load. Rows without an id are never marked, hence
`AllIds`: a slow handler with such rows may land them late, as at-least-once delivery has
it. `CompletedStateKept` follows from `AnsweredInv` (a state thread that says stored or
stale is right for good) and `StateDone`.

For Identity: the registry gives no two keys one pid (`Injective`), and an open client's
pid is what the registry has for the key of its task (`ClientOK`); all tasks that come with
a load have the same key, so rows, state and completion meet at one pid. `CursorInv` adds
that no cursor, local or stored, is ahead of what some machine of the pipeline has sent, has
under way or has given up; `CoveredStays` is why that lasts: a load only ends with its rows
sent or given up.

For Deploy: `Progress` ties the pid and run of a command to its step; `PackageInv` adds
`UrlsOK` (an upload URL of the present run is for the present pid), `FreshInv` that the
number of a deploy's build is one of the pid's builds (`Marked`) and that a build which
has ended is the last one (`EndedIsLast`), `SecretsInv` that every package uploaded or
built has a deployer whose secrets are in place, none of them older than the submission
that went before the upload (`InPlace`); a submission only replaces values by newer ones
(`SubmissionReplaces`), so they stay in place. For the gate: `ProcessInv` (patched and
redirected exactly while the harness is on) is the reason for the first two theorems; the
third needs that executing a script is deterministic (`Reaches`, `EndsAt`, `OneEnd`), so
an unchecked third execution of the script the gate let through ends where that did.

For a load job the state is related to what the file is cut into. `Base` says that the
chunk being filled is the rows of the (sorted, stripped) file from `Start` to `read`.

* *No row twice.* `Marks` ties marks and log: the position of every row with an id is
  backed by a mark or in `unmarked`, and every mark by a position that is not. `LandOnce`
  follows, since what is committed has no mark. *One row per tear* (`FileRows`: the rows
  up to `Start` are in the file but perhaps the first, and then a line is torn) is close to
  what it says; a torn line is only ever continued by the first row of a run, since a run
  that goes on has written its chunks whole.
* *All rows land.* `AllRowsLanded` says nothing of the ledger, which is why it is
  not inductive. `CutAt(c, l, k, a)` says that under the limits `l` the first `k` chunks of
  the file end at row `a`; `RunCuts` that the present run is there; `HttpRows` that a seq
  the service knows was a chunk of some run, and that all rows up to its end are known
  (`UpTo`): in the log if they have no id, marked by their id otherwise. If no
  run cut larger chunks than one before it, a later run's chunk with that seq ends no
  further (`CutIsSooner`, `KnownIsSooner`), so to be taken for a replay loses nothing.
* *The table.* A local file is a replay of the rows (`FilePlaces`): it goes through them
  one by one and jumps back where a run has started again, so after the last occurrence
  of a row there are only later ones (`Replays`). The log is one too. When the rows have ids
  and each marked id was marked with its own row (`Clean`), the marked ids are those of the
  first rows of the file (`MarkPlaces`): a chunk that is sent again, cut as it may be, adds
  its part behind them (`NewIsTail`), and what a broken handler left unmarked is gone through
  again from there. Without ids rows land again from the first chunk that is not in the
  ledger (`SeqsInOrder`), so the last time through goes beyond all that is known
  (`BarePlaces`). In each case the fold's last fact for a key is the key's last row in sorted
  order (`FoldIsLast`, `FoldOfRows`), and that is the row no other comes after in
  `TableOfFile` (`SoonerComesBefore`, `LastRowsAreTable`, from `SortedByIsSorted`: the sort is
  stable in both directions) when text and type sort alike and no two keys join to one text.

For the package: `WalkInv` says that the walk meets a file once (it is taken, at hand,
listed, or its directory is still to be listed), hence no path twice in the tar file
(`OnePath`) and, while nobody touches the directory, nothing lost (`Untouched`);
`Recorded` that the manifest has an entry for each member. The hash is over the listing
of a set in the order of paths, which is one (`ArrangedIsSorted`). For the secrets:
a script that makes one pipeline, in a text that can be read, has it first in the text and
last at run time (`SoleIsFirst`).

On recursion: nothing here is proved by an induction principle that takes an operator.
`Ordering_proofs` states induction over sets of numbers (`NatsByInduction`) and derives
from it that a function given by its first value and its step exists (`FoldExists`) and
stays in a set it does not leave (`FoldStays`). What `Flattened`, `Sums` and `Folded`
compute for every input is proved with these.

Only model-checked:

* liveness (`LockIsReturned`, `EveryLoadEnds`, `DeployEnds`), which the prover does not
  reach;
* `ReturnsRecognised`: it relates the list to the number of changes in the whole sequence of
  calls, of which the cut leaves the last ones; the run takes every sequence of its bounds.

## 5. What is not modelled

* The switches `MB_LOCK`, `MB_CLAMP`, `MB_DEDUP` and the jitter are at their defaults
  (the deviations `LockIsFree_Unchecked`, `Clamp_Off`, `KeptRows_NoBackstop` are what
  turning the first three off does).
* The service's counters other than the resurrections, the results stored in the
  ledger and `last_record_id`: nothing reads them but tests.
* A restart of the service: the fake keeps everything in memory and is not
  restarted in the tests; the failures it has are those of single handlers.
* Bytes, file names, HTTP paths, authentication, JSON; a body that does not parse is
  `Abort`. The type markers of typed-jsonl are a field of a cell, not characters.
* Timeouts: no request of the client has one (listed as a hazard without a property: the
  service in the repository answers whatever it accepts).
* 404 answers: the service in the repository never forgets a pid it has given out (listed
  as a hazard without a property). The 404 of a state document that is not there is
  `StoredState`.
* Transports that are installed as plugins and the hosted runtime's `internal_log`: their
  code is elsewhere; Identity models their choice and what happens when there are none.
* Calls a script makes to `extract`, `normalize` or `load` are not intercepted by the gate;
  the model has them as `LoadDirectly` and says where they keep their state, not what they load.
* Values of secrets, of which only the age is kept, and their encryption; the contents of
  packages; the builder.
* What dlt itself restores from the state it finds in a directory the script names (a
  destination, for one): that is dlt's code. The model has the directory only.
* The destination's capabilities and the declarations of `destinations.py`, but for the
  sequential loader strategy: they are data for dlt.
* dlt is external: its loader's retries are bounded by `MaxFaults`, `MaxRuns` and
  `MaxLoads`.

## 6. What the plan has left

A composition of Identity with LoadPipeline's retries, which Identity reduces to lost
answers.
