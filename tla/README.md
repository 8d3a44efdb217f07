# AI Train & Infer Platform: TLA+ models

The platform is a set of Go services (Gin, GORM, Redis, MinIO, Docker) and a React client.
This directory models the parts whose behaviour depends on the order of concurrent steps and
on failures between them, checks them with TLC on small instances, and proves the most
important invariants with TLAPS for every value of the constants.

    tlc -workers 2 -config TrainingFaults.cfg MCTrainingJob.tla
    tlapm TrainingJob_proof.tla        (and the other *_proof modules)

`PROJECT.json` has, for each definition, the source lines it stands for; for each run, what
it checks; for each property, a plausible bug that breaks it; and the list of hazards.

## 1. Inventory

| component | state | operations | what is hard | what makes it correct |
|---|---|---|---|---|
| **training job service** (`services/training/internal/service`, `repository`, `handler`) | `training_jobs` rows (status); one background goroutine and one completion monitor per job | CreateJob, UpdateJob, DeleteJob, StopJob; `startJobAsync`; `monitorJobCompletion` | requests, the background start and the monitor write the same row without a transaction or a status guard; contexts that expire while waiting for a mutex; lost writes | a success is never false; a row that is not final has somebody who will change it; jobs settle |
| **Docker executor** (`services/training/internal/executor/docker.go`) | `jobs` registry, `mu`, one `JobProcess` with a cancel function per job; the containers | Start, Stop, GetStatus, IsRunning, monitorContainer, cleanupJob, stopOrphanContainer | the mutex is held through an image pull; monitor and Stop clean up the same job; AutoRemove; refused Docker calls | each registry entry has an owner; the mutex is released on all paths; no container without supervision |
| **metric hub** (`executor/metrics.go`) | `clients` map, register/unregister/broadcast channels, a buffered channel per client | HandleWebSocket, readPump, writePump, BroadcastMetric, runHub, Stop | rendezvous on unbuffered channels, full buffers, closing channels from two sides | in-order delivery without gaps, no double close, the hub stays live |
| **training log stream** (`log_repo.go`, `StreamLogs`, SSE handler) | a Redis stream per job; per reader a goroutine, a Go channel and an HTTP response | AppendLog, ReadLogs, ReadLogsRealtime, StreamLogs, streamLogsSSE | `$` reads only what comes after the call; trimming; a full channel whose reader is gone; ends when IsRunning is false | order, nothing twice, nothing lost that was read, an end, no goroutine left |
| **templates and log collection** (`template/template.go`; `buildContainerConfig`, `collectLogs`, `MetricParser` in `docker.go`) | the script, its configuration and exit code; the position in the container's output | the four templates; collectLogs | failures at every point of the script; values of JSON that Python rejects; reads that do not agree with frames | exit codes tell the truth; lines arrive whole |
| **lists** (handlers, services and repositories of data, experiment and training) | rows that match a filter | List, ListExperiments, ListJobs | count and page are two queries, pages are many requests | a walk misses and repeats no more than what moved |
| **data service** (`services/data`) | dataset rows, upload progress in Redis, chunks and files in MinIO | Create, UploadFile, InitUpload, UploadChunk, CompleteUpload, Update, Delete, Download | read-modify-write of the progress by concurrent chunks; three stores without a transaction; soft deletes and `Save` | the progress counts stored chunks; ready means uploaded |
| **experiment service** (`services/experiment`) | experiments, runs, metrics | CreateExperiment, UpdateExperiment, DeleteExperiment, CreateRun, UpdateRunStatus, CompleteRun, RecordMetric, BatchRecordMetrics; GetExperimentReport, CompareExperiments, GetLossCurve, GetAccuracyTrend, GetMetricSeries, GetRunMetrics | check-then-insert, read-modify-write of whole rows, clock readings of different requests in one row, answers put together from several queries | durations and ends agree with starts; a deleted experiment stays deleted; a report misses nothing that was there when it began; what is called common or best is |
| **user service**, JWT (`services/user`, `pkg/jwt`) | users, API keys, token blacklist; the tokens clients hold | Register, Login, RefreshToken, Logout, JWTAuth, CreateAPIKey, DeleteAPIKey, CleanExpired | check-then-insert against unique indexes, a count before an insert, a blacklist that is cleaned by the clock while requests come in | accounts stay distinct; a logged-out token stays refused; the keys stay near the limit |
| rate limiters (`pkg/ratelimit`) | Redis keys | token bucket, sliding window, fixed window | the package does not compile and nothing imports it | - |
| **inference service** (`services/inference`) | containers, rows | container executor, repository | its handler and service packages are absent from the repository | - |
| gateway, web client, shared libraries, deployment | none of their own | proxying, views, wrappers, configuration | - | - |

Interactions. The HTTP handlers call the services in one goroutine per request, with a context
that is cancelled when the client goes away. CreateJob starts `startJobAsync`, which
calls `DockerExecutor.Start`; a successful Start spawns `monitorContainer` in the executor and
`monitorJobCompletion` in the service. The two never speak to each other: the first reacts to
the daemon and deletes the registry entry, the second polls IsRunning and GetStatus, which read
that registry and the daemon, and writes the row. StopJob writes the row, calls Stop, and
writes the row again. The data service talks to three stores in the request's goroutine. `Start` also spawns
`collectLogs`, which appends the container's output to the job's Redis stream; each SSE request has a goroutine of its own
that reads the stream and asks the executor whether the job still runs.

Two facts about the code as it stands: `main` of the training service assigns both results of
`NewDockerExecutor` to one variable, so it does not build as it is, and it never makes a
`MetricCollector`. The models take both components as their packages define them.

## 2. Plan

| # | module | state |
|---|---|---|
| 1 | `TrainingJob`: job service, executor and daemon together, since every hard case is between them | modelled, checked, seven theorems |
| 2 | `MetricHub`: the WebSocket hub | modelled, checked, four theorems |
| 3 | `DatasetUpload`: the data service | modelled, checked, three theorems |
| 4 | `LogStream`: Redis stream, live reader, SSE; refines `LogChannel`, the abstract lossy channel that keeps the order | modelled, checked, refinement proved, three theorems |
| 5 | `Experiment`: the tables and their writers; `ExperimentReport`: the readers, beside those writers | modelled, checked, eight theorems |
| 6 | `UserAuth`: registration, tokens and blacklist, API key limit | modelled, checked, four theorems |
| 7 | `TrainingScript`: the generated scripts, their environment and the collection of their output | modelled, checked, three theorems |
| 8 | `Listing`: the paged lists of three services under change | modelled, checked, two theorems |

What is left: two datasets with one name (the race is modelled, no property survives it). No module that is proved about declares a RECURSIVE operator.

## 3. The modules

### TrainingJob

A goroutine is a program counter; a step is the code between two points another goroutine can
observe: a query, a Docker call, a critical section of `e.mu`.

| variable | code |
|---|---|
| `row` | `training_jobs.status`; `"none"` when there is no row (DeleteJob is a hard delete: the struct has no `DeletedAt`) |
| `starter` | `startJobAsync`: pause, GetByID, UpdateStatus(running), Start (lock, create, start, inspect), the failure write |
| `mu`, `registry`, `cancelled` | `DockerExecutor.mu` (by its holder, needed only where it is held over a call), the keys of `jobs`, the jobs whose `CancelFunc` ran |
| `container`, `exitCode` | what the daemon knows; AutoRemove turns exited into gone |
| `execMon` | `monitorContainer`: wait, unregister, stop (cleanupJob), or leave when cancelled |
| `jobMon` | `monitorJobCompletion`: tick, IsRunning = lookup under the mutex + inspection outside it, GetStatus = the same again, the final write |
| `req` | UpdateJob, DeleteJob, StopJob with the status they read and whether their context is live |

Faults are switched on by the constant `Faults`: process crash, refused Docker call, failed
query, a wait beyond a context's deadline, client disconnect, a container that is gone
before Start inspects it (which makes Start dereference nil: `StartPanic`), and exit codes other than 0.

Abstractions: containers are told apart by job (the real name has the first 8 hex digits of the
job's id, taken as unique); a configured command, GPU list or image is not distinguished;
log lines are left out; TimeoutHours is left out because nothing enforces it (the context made
from it is only ever cancelled by Stop, the executor's own timeouts are covered by
`ContainerStop` failing); `Close` is never called.

### MetricHub

A send on an unbuffered channel is a rendezvous: the sender waits at its program counter until
the hub's step takes it. `hub.rest` is the part of the range loop still to do; `HubSend` is one
turn of it, with the closed channel (panic) and the full buffer (the hub sends to itself and
stays at `kick`) as outcomes. Stop closes `stopCh`, then takes the lock, closes the clients one by
one and empties the map, while the hub's range loop, which takes no lock, may be in
the middle. `sent`, `log` and `joined` are history variables for the delivery properties: `log` has the messages the hub took, a
sequence for each job, and `joined` how long that sequence was when the subscriber was registered.

### DatasetUpload

A step is one call to one store. `row` and `deleted` are the table (soft delete), `progress` is
the JSON document in Redis, `chunkObj` and `file` are objects in MinIO that remember having
been there. `Save` is GORM's: an update of every column that turns into an upsert when the row
was soft-deleted meanwhile. CompleteUpload reads through a nil row, which Gin recovers: the
request ends. The byte counts are left out: no decision reads
them (`UploadProgress.IsComplete` has no caller). Assumption: the table has the
`deleted_at` column of the struct.

### Experiment

A step is one SQL statement or one reading of the clock. `exp` and `gone` are the table of experiments (soft
delete), `run` the table of runs, which nothing deletes, `now` the clock. A request carries what it has
read or made up (`doc`, `row`) from its first query to its write, and may end anywhere in between
(`Abandon`: a failed call, a client that is gone, a dead process). `Moved` are the columns UpdateStatus sets,
`Ended` what CompleteRun makes of the row it read. `name` stands for name, description, tags and config, which
UpdateExperiment treats alike. After the insert, CreateRun calls UpdateRunsCount, whose statement names a column that does
not exist: it changes nothing (see the findings). Assumptions: the tables are those of `pkg/models` (the SQL migrations
have no `runs`), and the clock does not step back.

### ExperimentReport

The readers, one at a time, while the writers of Experiment go on. A run is reduced to what the readers look at: status
(completed, failed, or any other), duration, the keys and scores of its summary, and how many points were recorded of
it under each name; the writers may leave any of `Rows`, because UpdateRunStatus accepts every status at any time. `rd` is the
local state of GetExperimentReport (the list, its turn, the running summary) or of CompareExperiments (its turn, the
answer so far, the count per metric). `before` is a history variable: the points there were when the request came. Runs have distinct
creation times. A request for a chart tries several names of a metric, one query each, and takes a failed query for a name
without points; a request for a series or for a run's metrics is one query, and answers 500 when it fails. Scores are in halves, so that -1.0, where `bestMetric` starts, and values between -1 and 0 are distinct.

### LogStream and LogChannel

One reader: readers share nothing but the stream, which they do not change. The stream is the number of entries made, of
which the newest `MaxLen` are kept (XADD is called with an exact MAXLEN). `reader` is StreamLogs: the find, the history (the
*oldest* `HistoryCount` retained entries, as XRANGE gives them), the live loop of reads with `$`, and the last read; `batch` is
what a read returned and is not pushed yet. A read that waits is served by the next `AppendLog`. `logChan` is the Go channel
with its capacity, whose sender chooses between the send and the context; `handler` is streamLogsSSE, `client` the request's
context. `heard` is a history variable. Calls fail as `Faults` and `MaxFails` allow.

`LogChannel` says what a reader of a live log can rely on: entries in the order they were made, none twice, none invented,
some perhaps skipped, nothing after the end. `InOrder == Channel!Spec` with `seen <- out` and
`ended <- handler # "serving"`: the steps of StreamLogs are stutters of it, and `Deliver` is its `Show` as long as the client is
there.

### UserAuth

A step is one SQL statement or one comparison with the clock. An account is an email with a name; `users` is the table, where
`Insert` meets the unique indexes; `pairs` are the token pairs issued, with the ends of both tokens; `blacklist` the rows of
the logged-out ones. A request carries its account and its pair; one that comes with a token passes JWTAuth (blacklist, then
signature and expiry) before its handler. `late` marks requests that came after the logout of their pair was answered.
Passwords, signatures and hashes are taken as sound: a client sends the tokens it was issued and nothing else. Nothing changes
the role or the state of an account. The clock does not step back, and is one for the service and the database.

### TrainingScript

One job: its framework, hyperparameters and environment are chosen once; `script` runs the class Config assignment by
assignment (the hyperparameters in order, then what the template calls defaults), the training loop epoch by epoch, and ends
with a code: by its own end, an exception, `sys.exit(1)` or a kill. The data of training is left out: each statement that can
fail may fail. A script of the job's own, which the template passes on as it is, writes any line to either stream, and ends at any
time, with an exception or with any of `Codes`, whether it has written anything or not. The container's output is counted in units of 8 bytes: a frame is a header and two units of text, so that
a read of 1 to 4 units can cut a frame anywhere, span two, or be one. `sound` is a history variable: every read so far was one
frame and every append succeeded.

### Listing

A walk of one client through the pages of a list, for the three services that have one, which differ in what they do with a
page size out of range. `Count` and `Find` are the two queries of one answer. Rows come and go (create, delete, or an update
that changes whether they match) at any time. `past` is history: how many came and went, which rows stayed, and how many came
between the latest count and its find. `Rank` is the place of a row in the list, from the newest on; `Repeats` are the second
and later times a row was shown. Filters, and the other orders the data service can sort by, are left out.

## 4. The runs

| run | instance | shows |
|---|---|---|
| `training_faults` | 1 job, 2 requests, stop/delete/update, all faults | `CompletedMeansExitedZero`, `RegistryOwned`, `MutexHeldByStarter`, `TypeOK` survive every fault and overlap; no deadlock |
| `training_slow` | 2 jobs, 1 request, stop, deadline fault | `ContainerSupervised`: no container runs that nobody watches or is about to stop, even while another job's pull blocks the executor |
| `training_quiet` | 1 job, 2 requests, stop/delete, exit codes 0 and not 0, no other fault, fair, training ends | `RowOwned`, `MonitorQuitsWhenOver`, and the liveness `JobSettles`, `RegistryDrains`, `RequestReturns` |
| `metric_hub` | 2 subscribers of one job, 2 topics, buffers of 1, 2 messages, Stop | `MembersOpen`, `PanicsOnlyAfterStop`, `DeliveredWithoutGaps`, `HubAnswers` |
| `metric_hub_slow` | 1 subscriber, 3 messages | violation of `HubServes`: the hub blocks itself on a full buffer |
| `dataset_upload` | 1 dataset, 3 requests, 2 chunks, every operation and fault | `ProgressCounts`, `ReadyMeansAll` |
| `experiment` | 1 experiment, 1 run, 2 requests, clock up to 2 | `DurationReal`, `EndedWhenOver`, `DeletedStays` |
| `experiment_report` | 2 experiments, 2 runs in all, 2 metrics of 1 point each, 4 kinds of row, comparisons of 2 | `ReportSeesPast` (reports, charts, series), `BestRunIsBest`, `CommonIsCommon` |
| `log_stream` | 5 entries, 3 retained, a history of 2, a channel of 1, 2 failing calls, every fault, fair | `HeardIsDelivered`, the refinement `InOrder`, and the liveness `StreamEnds`, `NothingLeaks` |
| `user_auth` | 2 emails, 2 names, 2 requests, 1 key allowed, 2 token pairs, lifetimes of 2 and 3, a clock up to 3 | `AccountsDistinct`, `LogoutSticks`, `KeysBounded` |
| `training_script` | every framework, 2 hyperparameters, good, textual and broken values, 2 names in the environment, reads of 1 to 4 units, own scripts of up to 1 line that end with 0, 1, 2 or 137 | `ExitTellsTheTruth`, `LinesArrive` |
| `listing` | 4 rows, pages of 1 or 2, sizes 0 to 3 asked, 3 comings and 3 goings | `WalkMissesOnlyMoved` |

Bounds and why they are enough. Jobs meet only in the executor's mutex and in `Stop` by name, so
one job with two requests has all races on one row, one entry and one container; two jobs add
the wait for the mutex. With buffers of one, both "full" and "not full" occur with the first two
messages; a gap needs a dropped message and a later one, that is two messages of the subscriber's job
beside one buffered, which the message bound and the buffers of one reach together. Two
subscribers let one leave, block or be closed while the hub is at the other. Two chunks are the
least for a lost update and for a count that hides a missing chunk; three requests let two chunks
race with a completion, a second completion or a delete. One dataset means that the branches for a
taken name are not reached there beyond a dataset's own name. Runs and experiments
do not meet in the experiment service except through a run's experiment, so one of each has every race of two requests; two
ticks give a start, an end and a creation that all differ. Two runs let the best one be first, second or tied, and
the latest differ from the other; two experiments, or one given twice, are the least a comparison takes.
In the log stream, five entries with three retained let the history be trimmed, longer than its limit, and followed by live
entries; a channel of one is full with the first, so that the reader blocks on it. Two requests have all races of a
registration, of a logout with a request that uses its token, and of two counts; a clock up to 3 passes the end of the access
token, and of the blacklist row, while requests are under way. In the script run the reads are up to one unit longer than a
frame. An own script needs one line to have an exit without output, one behind its line and one behind a traceback; the generated
ones have more lines than that, which the reads cut and span; 2 stands for every other code. Four rows in pages of
one or two give up to four pages, and three changes let both queries of several pages be disturbed.

Fairness. `Fairness` of TrainingJob is weak fairness of each goroutine (the Go
scheduler is preemptive, the mutex is starvation-free) and of the daemon's auto-removal.
`TerminatingSpec` adds that training ends. The code cannot promise that, so it is an
assumption only of the liveness run. The safety runs use `Spec` without fairness. The hub needs strong fairness
of registering and unregistering a given client: Go's `select` picks at random among ready cases, so a
waiting client is not passed over for ever; its pumps end because writes have a 10 s deadline and
reads on a closed connection fail. Nothing is assumed of a browser that stays connected.
`FairSpec` of LogStream is weak fairness of the reader's goroutine and of the handler's: Redis answers or the call times out
after 2 s, and what is written to a client that is there is written in the end. Nothing makes the job move, log or end, nor the
client leave. Calls fail at most `MaxFails` times: a Redis that never answers again keeps a stream open for ever.

`RowOwned`, `MonitorQuitsWhenOver` and the liveness properties hold only where nothing fails:
a lost query, an expired or cancelled context leaves a row running or stopping for good, and no
code repairs it. That is stated in `hazards` and in `findings`.

Deadlock is checked where the system should always be able to go on (`training_faults`,
`training_slow`, `training_quiet`, `dataset_upload`). It is off for the hub, which may panic
or block itself; for the experiment and user runs, where the identifiers and the clock of the instance run out; and for the
log stream, the script and the walk, which end.

## 5. The proofs

`TrainingJob_proof` proves, for all `Jobs`, `Clients`, `Ops` and `Faults` under
`ConstantsAssumption` (`NoJob` is not a job, `Ops` and `Faults` are among the known kinds):

- `TypeCorrect`: `Spec => []TypeOK`. Inductive as it stands; lemmas per goroutine.
- `CompletedIsTrue`: `Spec => []CompletedMeansExitedZero`. Not inductive: a monitor carries its verdict
  and UpdateJob the status it has read in their local state, and both write it later over anything. The inductive
  invariant `OutcomeInv` adds `CompletedInFlight` (whoever carries "completed" is right) and
  `ContainerOrder` (a container has an exit code only once it ran, and is created
  once, so the code never changes back).
- `MutexCorrect`: `Spec => []MutexHeldByStarter`, inductive together with `TypeOK`.
- `RegistryHasOwners`: `Spec => []RegistryOwned`. The inductive `RegistryInv` adds `CancelOwned`: a
  registered job whose monitor was cancelled (and may leave without cleaning up) has a Stop
  between the cancellation and `cleanupJob`, whatever the daemon answers that Stop.

Three more say what holds while parts of the environment behave; each names the faults it excludes as its hypothesis, and
holds with the others:

- `ContainersAreSupervised`: `DaemonReliable => (Spec => []ContainerSupervised)`, where `DaemonReliable` excludes crashes, refused
  Docker calls and containers that are gone before Start inspects them (each of the three really leaves a container
  alone), but neither failing queries, expired contexts nor clients that go away, and no operation. The inductive
  `SupervisionInv` adds that a job is registered, cancelled or watched only after Start returned (`KnownWhenStarted`), that the
  Stop that cancelled a job goes on until the container is stopped (`CancelledIsHalted`), and that Start finds its container
  (`InspectFinds`), so it does not panic.
- `MonitorsQuitInTime`: `WaitsInTime => (Spec => []MonitorQuitsWhenOver)`; `WaitsInTime` excludes expired waits besides, which
  the monitor takes for the end of the job. The invariant `Monitored` adds that a monitored job that left the registry
  has ended or is about to be stopped, and that the monitor passes `lookup2` only when it saw one of the two.
- `RowsAreOwned`: `NothingFails => (Spec => []RowOwned)`; `NothingFails` leaves only a training process that fails, and no
  UpdateJob, which writes an old status back. The invariant `Owned` is stronger for "stopping": its owner is always a
  stop that has not written yet; `VerdictFormed` says that a monitor about to write has a final status in hand.

`MetricHub_proof` proves, for all subscribers, jobs, capacities and numbers of messages (`HubAssumption`:
capacities are positive):

- `TypeCorrect`: `Spec => []TypeOK`, channel capacities included.
- `NoDoubleClose`: `Spec => []MembersOpen`, and `NoPanicBeforeStop`: `Spec => []PanicsOnlyAfterStop`, both from
  `CloseInv`, which adds that the clients the range loop has yet to reach are in the map until Stop has the
  lock (`LoopInMap`), that nothing is left to reach outside the loop (`RestOnlyInLoop`), and that a client waiting to be
  registered is neither in the map nor closed (`NewcomersOpen`).
- `DeliveryHasNoGaps`: `Spec => []DeliveredWithoutGaps`. The property alone is not inductive: it does not say what the message in
  the hub's hand is, nor what becomes of a client that leaves the map. `FlowInv` is `CloseInv` and: pumps start with empty
  hands (`Started`); the message being delivered is the last of its job's log, newer than the registration of everyone
  it has yet to reach (`Offering`); whoever leaves the map under the range loop is closed (`RestKnown`); and for each
  subscriber (`Flow`) what it got, writes and has queued, one behind another, is a stretch of the log from its registration
  (`Follows`), which ends with what it was offered as long as it is in the map. The lemmas say how a stretch grows with the
  log, with a message offered, and what is left of it when a writer ends.

`DatasetUpload_proof` proves, for all datasets, names, requests, operations, faults and any positive number of chunks
(`UploadAssumption`):

- `TypeCorrect`: `Spec => []TypeOK`.
- `ProgressIsTrue`: `Spec => []ProgressCounts`. Not inductive, because the progress is overwritten from old snapshots;
  `ProgressInv` adds `ListsInFlight`: the list a request carries between its read and its write has only stored
  chunks, none twice, and not the chunk the request is storing.
- `ReadyIsTrue`: `Spec => []ReadyMeansAll`. `ReadyInv` adds `ReadyInFlight` (what a request will save as ready has been
  uploaded); the step of CompleteUpload needs `ProgressInv` and the pigeonhole principle (`FullList`).

`Experiment_proof` proves, for all experiments, runs, requests, texts, keys, scores and any bound of the clock
(`ExperimentAssumption`):

- `TypeCorrect`: `Spec => []TypeOK`, `DurationIsReal`: `Spec => []DurationReal` and `OverHasEnd`:
  `Spec => []EndedWhenOver`. None is inductive (even the type of a duration needs the start to be in the past), because requests
  write rows they made up earlier. `IInv` adds `RowsInv` (a start lies between the creation and now), `HeldInv` (what a
  request holds suits the row it will write over: the same creation, times in order) and `NewInv` (no other request knows
  a run that is being created).
- `DeletedIsFinal`: `Spec => DeletedStays`, an action property, from `IInv` and `GoneHasRow` (a deleted identifier is
  not drawn again).

`ExperimentReport_proof` proves, for any experiments, rows, keys and bounds and any finite set of metrics (`ReportAssumption`):

- `ReportsSeePast`: `Spec => []ReportSeesPast`. Writers only add runs and points (`WriteGrows`), so what a reader found at the
  start is there at each later query; `ReportInv` adds what it has so far: a report, the losses of the runs that had their turn
  (`Reporting`), a chart, the points under the names tried (`Charting`).
- `CommonIsTrue`: `Spec => []CommonIsCommon`. `Comparing` adds that a metric counts at most once for an experiment shown, that the
  count reaches their number only if all have it, and that fewer are shown than have had their turn.
- `TypeCorrect`: `Spec => []TypeOK` and `BestIsTrue`: `Spec => []BestRunIsBest`, from `SummaryInv`: `Sized` bounds the runs
  by `MaxRuns`, `Shaped` says what a request asks for and what its answer holds at each point, and `Scoring` says of the runs that
  had their turn that the best so far is the newest of those with the highest score, and that the durations added up are at most
  the number of those runs times one of them, which is all of the sum that the bound of the average needs.

`TrainingLogs_proof` holds the theorems of the two modules of a job's log: `TrainingScript`, which writes it, and `LogStream`, which
reads it. It extends both, which is why what every specification has is called `ScriptInit`, `ScriptNext`, `ScriptSpec` and
`ScriptTypeOK` in the one. Of `LogStream` it proves, for any lengths, limits, capacity and faults (`StreamAssumption`):

- `TypeCorrect`: `Spec => []TypeOK`, the capacity of the channel included.
- `HeardReachesClient`: `Spec => []HeardIsDelivered`, from `Delivery`, which adds that what was heard is increasing, that nothing is
  left in the batch outside the push, nor in the channel once the end event is sent, and that nothing is heard before the history.
- `StreamKeepsOrder`: `Spec => InOrder`, the refinement of `LogChannel`. The initial state maps to an initial state; `Deliver` to a
  client that is there shows a newer entry, because `heard` is increasing and is what is delivered, in the channel and in the
  batch; the end event and the handler's leaving are `End`; every other step is a `Make` or a stutter.

Of `TrainingScript` it proves, for any hyperparameters and their names, any defaults that include EPOCHS, any environments, any
size of a read, any exit codes and any number of lines of an own script (`ScriptAssumption`):

- `ScriptTypeCorrect`: `ScriptSpec => []ScriptTypeOK`. A job has an exit code exactly when its script is over, and the newest
  entry lies within what is read. Inductive as it stands: `RunStepRuns` says what every step of the script leaves behind (frames
  are only added), `ReadTypes` what a read does, from where a unit lies (`FrameOf`) and how a text is cut (`SplitType`).
- `ExitIsTrue`: `ScriptSpec => []ExitTellsTheTruth`. The property speaks of finished scripts only, and of
  generated ones only: a job's own script may exit with 0 or 1 and have said nothing (`OwnScriptExit`). `ExitInv` adds `Configured` (in
  the class Config, EPOCHS is still to be set, or is set to what the job wants and no hyperparameter is left that could
  overwrite it; from there on it is set), of generated scripts `InOrderTrained` (the epochs logged are 1 to the one the loop is at, once each and in
  order, and no more than wanted) and `Told` (what the exit code says is what the last line says).
- `LinesAreWhole`: `ScriptSpec => []LinesArrive`, inductive together with the types: what is read does not change while the script
  writes on (`WrittenStays`), and a read of one frame adds one entry (`ReadLinesArrive`).

`UserAuth_proof` proves, for any accounts, requests, lifetimes, limits and bounds (`AuthAssumption`):

- `TypeCorrect`: `Spec => []TypeOK`.
- `OneAccount`: `Spec => []AccountsDistinct`. The insert alone decides; a conflict stays explained since rows are never deleted.
- `LogoutHolds`: `Spec => []LogoutSticks`. The invariant `Revoked` adds that a pair that was logged out is on the blacklist or its
  access token is over, and stays so, since the clean-up removes a row only when the token has ended; and that a late request
  which passed the blacklist check did so with a token that is over.
- `KeysNearLimit`: `Spec => []KeysBounded`. The invariant `Counted` counts the requests of an account between their count and their
  insert: keys and those requests together stay below the limit plus the number of requests.

`Listing_proof` proves, for any number of rows and changes, any page sizes asked for and any limits (`ListingAssumption`: the
default size is positive and not above the limit):

- `TypeCorrect`: `Spec => []TypeOK`.
- `WalkMissesOnlyWhatMoved`: `Spec => []WalkMissesOnlyMoved`. The property speaks of the end of a walk only. `WalkInv` says at each
  page that the rows shown more than once and those that will come again (`Again`: shown, but on the pages ahead) are at most
  as many as the rows that came, and that those passed over (`Missed`: not shown, but on the pages behind) are at most as many as
  went (`Moved`); and that the rows there are exceed the count by at most those that came after it (`CountLags`). A row that
  comes moves one row at most across the edge of a page, and one that goes as well, because ranks are distinct (`InjCard`).

What stays with TLC: liveness under fairness (`JobSettles`, `RegistryDrains`, `RequestReturns`,
`HubAnswers`, `StreamEnds`, `NothingLeaks`) is beyond the prover. Every invariant, action property and refinement that a passing
run checks is stated by a theorem; those of TrainingJob that hold only while the environment behaves name the faults they exclude.

## 6. What the models show of the code

The disagreements met while modelling are in `findings`, each with the text it contradicts: final
statuses that are overwritten, success recorded as failure, a monitor that takes its own deadline for
the end of the job, the hub that blocks itself, ready datasets without a file, a nil dereference in Start,
hard deletes documented as soft, `Save` bringing deleted datasets back, a run count written to a column that is not
there, experiments that are not found answered with 500, log entries missed between two reads, hyperparameters the templates
overwrite, metrics the parser cannot recognise, and a key limit that concurrent requests exceed. One of them, the hub, has a run
that shows it.

What holds, and is not obvious: a completed row is always true; the registry does not leak although two
goroutines and a cancellation race for each entry; the executor's mutex is free on every error path; a departed
subscriber is never sent to unless Stop is running; and although concurrent chunks overwrite each
other's progress, an upload is accepted only when all its chunks were stored: each
save is a snapshot without the chunk plus the chunk, so a list never has duplicates and the count is exact.
A logout holds against every clean-up of the blacklist. A log stream loses nothing it has read, and its goroutine ends although
its channel may be full when the client leaves. A walk through a list that changes misses no more of the rows that stayed than
went, or came too late for the count.

## 7. Not modelled

- The rate limiters, the gateway's handler and middleware, and the inference executor do not compile (see the notes in
  `components`), and the inference service's handler and service packages are not in the repository: what they do in order is unknown.
- QueryMetrics: its window compares timestamps that clients send. Artifacts have no handler; the MLflow services are stubs.
- `gpu.go`, `error_handler.go`, the MinIO, Redis and database wrappers, configuration, logging, the web client and the deployment:
  no state that concurrent steps share; what they ask of outside services is modelled at the place that asks.
- Timeouts by their values: a wait either exceeds its deadline or does not.
