# Verification of CascadeScenarioController

The controller runs *scenarios*: a fixed list of modules, each executed as one
Kubernetes Job, the output of one being the input of the next. A `POST /run`
starts one run of the scenario; several runs may be in flight in one process.
This directory holds TLA+ models of the controller's logic, the TLC
configurations that check them on small instances, and theorems about them
proved with TLAPS for every value of the constants.

Paths below are relative to the repository (`src/`).

## 1. Inventory

| Part | State it keeps | Operations | Correct when |
|---|---|---|---|
| **Scenario execution** `process/process.go` (`ImageProcessing`, one goroutine per run) with the Job calls of `k8sclient/k8sclient.go` | its place in the loop, the `WaitGroup`, the `stop` channel; shared by all runs: `CurrProcess`, the gauge `scenario_current_runs`, the scenario's `Containers[0].Env` | create the `CascadeRun`, start the helper goroutines, per stage launch / poll / delete a Job, decide, stop the collector, wait, count down | stages run in order, each once; the reported result is the true one; a run acts on its own jobs only; no job is deleted before it succeeded; every accepted run ends; the result in S3 is the run's own |
| **Operator status** `SetActiveCRDStatus`, `SetFailedRemoveActiveStatus`, `SetSuccessRemoveActiveStatus` (`k8sclient.go:215-281`) under `process/retry.go` | `status.active/succeeded/failed` of the `CascadeAutoOperator`, in etcd; a copy per attempt | read the object, change the copy, write it back, retry with backoff | no update is lost between concurrent runs; the counts are bounded by what was recorded; the attempts end |
| **Admission and shutdown** `handlers/handlers.go` (`StartRun`, `SetShutDown`), `main.go:139-224` (main goroutine, `watchDeletionTimestamp`, `waitForProcesses`) | `isShutDown`, the place of main and of the watcher, the finalizer of the `CascadeAutoOperator` | check the flag, start a run, signal, wait for `CurrProcess = 0`, remove the finalizer, close the server, exit | accepted runs are awaited; shutdown terminates; the object is released; nothing accepted is cut off |
| **Module reports** `GetStatusFromModules` (`handlers.go:162-188`), `GlobalChannel`, the collector goroutines (`process.go:81-105`), `SetCascadeRunStatus` and `SetCascadeRunFinalStatus` (`k8sclient.go:324-371`) | an unbuffered channel shared by all runs, `status.result` and `status.info` of each `CascadeRun` | a handler sends, any run's collector receives and updates the `CascadeRun` that the report names; a run that decides writes its final info into the same object | no update overwrites another; a report answered with 200 is given up only when its attempts are spent, and repeated only where a reply was lost; results keep their order; collectors stop when told, and flush; no handler waits for ever |
| HTTP surface: validation of payloads, rate limiter, health, readiness, metrics | token bucket, Prometheus vectors | | not modelled: stateless or a library's |
| Configuration, logger, API types, client construction, webhook client | none that changes | | not modelled: start-up, generated or unused code |

**How they interact.** Handlers start goroutines that share one address space.
They meet in `CurrProcess` (atomic), in the gauge, in the container of the
scenario template (unsynchronised, `k8sclient.go:127`), in `GlobalChannel`, and
in the objects of the API server, which are identified by names built from
`IUid[0:5]`. Main and the watcher only look at `CurrProcess` and at the object.
Two things end the process without waiting for anybody: `logger.Fatal` when a
Job cannot be created (`k8sclient.go:145`) and the panic of slicing an `IUid`
shorter than five bytes (`process.go:76`); nothing resumes runs afterwards.

**What is hard.** Interleavings of runs around the shared container and the
colliding names; the poll that a later deletion acts on; CRD updates by
read-modify-write with retries and lost replies; one unbuffered channel from
which the collectors of all runs receive, while they also wait for `stop`; a `WaitGroup`, a rendezvous
channel and a counter that together decide when shutdown may go on; two waiters
(main and watcher) on that counter; death of the process in the middle of all
this. `PROJECT.json` lists each of these hazards at its line, with the
properties that would notice it going wrong.

## 2. Modules

| Module | What it is |
|---|---|
| `Cascade` | abstract promise of a run: stages in order, true results |
| `ImageProcessing` | the runs of one process and the part of the cluster that answers them; implements `Cascade` and, as `ModuleReports` does for collectors and final infos, `WaitGroup` |
| `WaitGroup` | abstract protocol of a run and the goroutines it starts: who is started when, how the collector is told to return, when the run is left |
| `RunCounts` | abstract promise of the operator status: one counter, updated atomically |
| `OperatorStatus` | the status counts of the `CascadeAutoOperator` under concurrent read-modify-write with retries; implements `RunCounts` |
| `Controller` | admission, main, watcher, restarts, composed with `ImageProcessing` (by `EXTENDS`, whose actions it takes as they are) |
| `RunRecords` | abstract promise of the `CascadeRun` objects: records that only grow |
| `ModuleReports` | handlers, collectors and the retried updates of the `CascadeRun` objects; implements `RunRecords` |
| `ImageProcessingProofs`, `DeliveryProofs`, `ExpiryProofs`, `HelpersProofs`, `OperatorStatusProofs`, `ControllerProofs`, `ModuleReportsProofs`, `CollectorProofs` | theorems |
| `MCImageProcessing`, `MCOperatorStatus`, `MCController`, `MCModuleReports` | instances for TLC |

An action is named for the function, or the call in it, that it stands for.
Operators called *mutation* are plausible bugs kept next to the definition they
distort; no specification uses them. They document, for each property, a change
of the code that the property detects.

### `ImageProcessing`

One action is one API call with the local code around it, so runs interleave
wherever the code waits for the API server and wherever they meet on shared
memory. `pc[r]` follows the source:

| `pc` | the goroutine is about to |
|---|---|
| `accepted` | raise the gauge and create the `CascadeRun` (71-80) |
| `begun` | increment `CurrProcess` (121); the helpers already run |
| `loop` | take the next module (122) or end (211) |
| `creating` | call `Jobs.Create`, its environment written (`k8sclient.go:143`) |
| `polling` | poll the Job (138-209) |
| `deleting` | delete the Job it saw succeed (177) |
| `stopping` | send on `stop` (204, 233), the verdict having been recorded |
| `draining` | `wg.Wait()` (205, 234) |
| `done`, `refused`, `lost` | returned; returned at line 79; the process died |

Abstractions, and why they lose nothing the properties tell apart:

- `IUid` is represented by its first five bytes, `Prefix[r]`, and by whether it
  has five. Nothing in the code makes prefixes unique, so they may collide.
- A job's environment is *whose* `s3path` it holds. The template is copied
  shallowly, so `env[k]` is one variable per stage shared by all runs. The write
  at `k8sclient.go:127` and the encoding inside `Create` race. The slices
  written for one stage have the same length whatever the run, so even a torn
  slice header gives the elements of one of the writers; the last writer wins.
- A poll that answers `notStarted`, `Running` or an error leaves the loop where
  it was and is not an action. The error branch of lines 144-169 cannot be
  reached: `restart_count` is set to 600 in every iteration and decremented
  once. This is why `EveryRunEnds` fails when jobs can vanish (run `job_gone`).
- A Job is its `succeeded` flag and its number of failed pods; `active` only
  tells `notStarted` from `Running`. The deadline of a Job shows in the failed
  count, as any failing pod does.
- Errors of `CascadeRun` creation, Job creation and Job deletion may or may not
  have taken effect: both outcomes are choices.
- `Return(r, g)` is the end of a goroutine that updates a status; what it writes
  is the subject of `OperatorStatus` (`setActive`, `setOperator`) and of
  `ModuleReports` (`setRun`). The collector ends by the rendezvous on `stop`
  only; what it does until then is in `ModuleReports`.
- The cluster (`PodSucceeds`, `PodFails`, `Expire`, `DeleteCascadeRun`) is
  external and modelled from how the code uses it. Others do not delete jobs,
  the TTL controller excepted, when `TTLSet`.

### `OperatorStatus`

Every run has two goroutines that update the object: `setActive`, tried once
and then `MaxRetries` times, and `setOperator`, tried `MaxRetries` times. They
are not ordered: the second starts when the run decides, whatever the first has
come to. An attempt is `Get`, then `UpdateStatus`, which needs the version read
to be current. A call may fail without effect (a conflict is one such failure),
and a write may take effect while its reply is lost; then it is tried again.
`landed` and `unheard` are history: the writes that took effect, and those
among them the goroutine does not know of.

### `ModuleReports`

| Definition | Code |
|---|---|
| `Begin` | the `CascadeRun` is created and the collector started (`process.go:76-84`) |
| `GetStatusFromModules` | the handler, up to its send (`handlers.go:162-186`), whatever name the report gives; it is answered in `Take` |
| `ModulePosts` | *environment:* the pod of a module posts, some run of the name it was given having begun |
| `HearStop`, `PassStop`, `Take`, `NoReport` | the cases of the collector's two nested selects (`process.go:85-102`); `collector[r]` is `outer`, `inner`, or `busy` with a report |
| `Decide`, `Exit` | the final info is set going and `stop <- true` sent; `wg.Wait()` returns (`process.go:219-235`, and 192-206 on failure) |
| `Get`, `UpdateStatus`, `CallFails`, `ReplyLost` | one call of an attempt of `SetCascadeRunStatus` or `SetCascadeRunFinalStatus` (`k8sclient.go:324-371`) and what the retry loop does with its answer (`retry.go:32-56`) |

An *update* is a report, or the final info of a run. A report is tried
`1 + MaxRetries` times (`process.go:93`, 96), a final info `MaxRetries` times. As
in `OperatorStatus` a write needs the version that was read, and may take effect
with its reply lost. Reading refuses when the object does not exist.

- A report is represented by itself: the line written for it is a function of
  the report. A final info is represented by the run that decided it.
- Requests that the decoding or the validation refuses change nothing and are
  not steps; runs whose `CascadeRun` cannot be created have no collector and are
  in `ImageProcessing` (`RefuseRun`). `Name` may give two runs the same name and
  `RunName` any object's: the theorems cover every assignment.
- The handler does not ask whether the run it is told of exists. That a module
  posts after that run has begun is an assumption about modules (`ModulePosts`),
  which are pods of the run; from then on it posts at any time: while the run
  works, while it waits to stop, after its end, or to the next process. The
  object may be gone by then, and its name be unknown to the update.
- `WriteTimeout` (`main.go:124`) ends the connection, not the handler: the send
  goes on and the report is recorded when it is taken; only the answer is lost.
- `DeleteCascadeRun`, `Crash`, calls that fail and replies that are lost are
  bounded together by `MaxFaults`. Conflicts, and reads of an object that is
  gone, follow from the state and are not bounded.

### `Controller`

`CheckShutDown` and `LaunchRun` are the two halves of `StartRun`
(`handlers.go:193-233`): the flag is read before the body is decoded and not
again. A request whose body is refused changes nothing and is not a step.
`Signal`, `WaitForProcesses`, `MainDeletesFinalizer`, `ExitMain` are
`main.go:139-161`; `WatchDeletion` ... `WatcherDeletesFinalizer` are
`main.go:166-208`. `WatchDeletion` needs the finalizer because an object that is
being deleted without one does not exist: the read fails and is repeated.
Fatal errors, panics and crashes restart the process (`Restart`), as the
Deployment does; an orderly exit is where the model stops.

## 3. Runs

All runs finish within three minutes with two workers.

| Run | cfg | Shows |
|---|---|---|
| `runs` | `MCRuns` | two runs **with the same prefix**, two stages, one pod retried: types, `OwnJob`, `NoPrematureDelete`, `Drained`, that `ImageProcessing` implements `Cascade` and `WaitGroup`, and that each step of a run uses up one of those it has left |
| `delivery` | `MCDelivery` | with one run in flight at a time a success leaves the run's own result in S3, with equal module names, expiring jobs, a short `IUid`, restarts (what two runs in flight do to the shared container is the subject of `shared_env`, and names that change hands between a poll and a deletion that of `runs`); a run never takes another's job for its own nor removes one whose pods run, `Cascade` is implemented; and every accepted run ends, or is left polling a job that is gone |
| `status` | `MCStatus` | the status is the counter of `RunCounts`: no lost update; bounded active count; the counts are off by the writes whose replies were lost and by no more; the updates use up their calls, and end |
| `shutdown` | `MCShutdown` | awaited runs finish before the finalizer goes; shutdown completes and the object is released, unless a run is for ever left polling a job that is gone (`HeldUp`); with crashes, panics, failed removals, expiring jobs |
| `reports` | `MCReports` | two collectors compete for two reports that name the object of the first run, one fault of any kind: no update overwrites another and the objects are the records of `RunRecords`; none is dropped while an attempt is left; one is repeated only where a reply was lost, and as often; order; stop is heard after one more report at most; a run that stops finds its collector; collectors and final infos are helpers as `WaitGroup` has them and use up their calls; all is flushed at the end; the collectors come to rest |
| `shared_env` | `MCSharedEnv` | **violation**: two runs in flight, one succeeds on the other's input |
| `backoff` | `MCBackoff` | **violation**: the first failed pod fails the run while the Job still retries |
| `job_gone` | `MCJobGone` | **violation**: a finished Job expires before it is polled; the run polls for ever |
| `active` | `MCActive` | **violation**: all runs ended, all updates succeeded, `active` stays above zero |
| `cut_off` | `MCCutOff` | **violation**: a run answered with 200 is cut off by an orderly exit |
| `deletion` | `MCDeletion` | **violation**: deletion of the operator object stops admission but does not end the process |
| `report_blocked` | `MCReportBlocked` | **violation**: a report that arrives after the last collector stopped blocks its handler for ever |

**Bounds.** Two runs suffice for every pairwise race: names collide in pairs, the
environment is overwritten by one other, and `CurrProcess` is wrongly zero or
wrongly positive because of one run; `delivery` has three, one of which kills
the process by its short identifier. Two stages give a first, a last and a
transition. `BackoffLimit = 1` makes a failure that is retried and one that is
final. `Concurrency` bounds the runs the callers keep in flight, `MaxCrashes`
the crashes in `Controller`; `ImageProcessing` itself may crash at any time.
`MaxRetries` is 2 in the code; `status` uses 1 for the state space: an
activation has two attempts and can be repeated, a result has one and cannot;
the theorems cover every value. `shutdown` lets jobs expire, so that a run may be
left polling for ever (finding 3); a shutdown or a release that waits for such a
run does not come, and the two liveness properties say so.
`reports` has two runs and two reports, both for the first run: enough for one
run's collector to take what is another's, for two collectors and a final info
to meet on one object, and for two results to change places. `MaxRetries = 1`
gives a report two attempts and a final info one; `MaxFaults = 1`, one fault of
any kind at any point, in addition to the conflicts. Its states grow too fast
for a third report or two faults; the theorems have no such bounds.

**Fairness.** Goroutines are scheduled and API calls return (weak fairness of
each run's steps and of each helper's return, whose retries are bounded by
`retry.go`); pods end. Weak fairness of main and of the watcher is their polling
loop. Collectors are scheduled, and their calls return (`WF` of `Collect` and of
each `Update`). A run need never decide, and a module need never post. Nothing
is assumed of callers, users, signals, crashes or of the kubelet. That a helper
returns, which `ImageProcessing` assumes, is what `UpdatesEnd` and `ComesToRest`
check of the retry loops themselves.

**Deadlock** is not checked: the process may have nothing left to do.

## 4. Findings

Each is a run that TLC refutes, with the quoted line in `PROJECT.json`.

1. *Shared environment* (`k8sclient.go:127`). `JobTemplate := config.Template`
   copies the slice header of `Containers` only; concurrent runs overwrite one
   another's `s3path`.
2. *Failed pods* (`k8sclient.go:167`). `Status.Failed > 0` is read as failure of
   the Job, so `backoffLimit` has no effect for the run, and the Job goes on.
3. *Job gone* (`process.go:139`). The error counter is reset in each iteration.
4. *Active count* (`k8sclient.go:265`). The decrement is skipped at zero, so a
   result recorded before its activation leaves the count one too high.
5. *Cut off* (`process.go:121`). A run is counted long after its request passed
   the check of the flag and was answered.
6. *Deletion* (`main.go:201`). The watcher returns; main waits for a signal.
7. *Report blocked* (`handlers.go:186`). Nobody receives once the collectors have
   stopped. The report of a last module easily comes so late: its pod may post
   while the run has seen the Job succeed. It is recorded if and when a later
   run starts a collector, and else lost with the process.

Seen while reading, without a run: the comment at `main.go:148` says the
finalizer is removed "if we were shutting down due to CRD deletion", the code
removes it on any signal; the gauge raised at `process.go:71` is not lowered
when the `CascadeRun` cannot be created; three of the metrics the README lists
are never registered (`prometheus-exporter.go:101-107`); a JSON type error on
`POST /` is answered with 500 (`handlers.go:171`); jitter lets a delay exceed
`MaxDelay` (`retry.go:51`); in the map of `handlers.go:184` the result of a module called `runname` is lost,
the key of the run's name being the later; the watcher does not repeat a failed removal of the
finalizer (`main.go:197-201`).

## 5. Proofs

Assumptions: the named ASSUMEs of the modules (finite `Runs`, natural numbers,
names defined for every run and stage), which TLC evaluates in every run. Names
may collide, stages may share a module name, any number of runs may be in
flight, any call may fail, the process may die at any moment.

**`ImageProcessingProofs`**

- `TypeCorrect`: `Spec => []TypeOK`. That the two counters stay natural is not
  local: the proof carries `currProcess = Cardinality(Counted)` and
  `currentRuns >= Cardinality(Gauged)`, which says why a decrement finds
  something to decrement (`TypeInv`).
- `ShutdownDrains`: `Spec => []Drained`, from `TypeInv` and
  `GoroutinesCounted`: only runs that are, or are about to be, counted have
  goroutines.
- `RunsOwnTheirJobs`, `JobsOutliveTheirWork`, `KeepsPromise`, under `~TTLSet`:
  `OwnJob`, `NoPrematureDelete`, `Implements`. `OwnJob` is not inductive:
  `OrderInv` adds that stages complete in order, that a job's name and success
  agree with the history, that a job about to be deleted has succeeded, and that
  a run in flight is exactly as far as its history says. With these, two runs
  with colliding names cannot both be past creation of the same name, which is
  the argument that deletion by name is harmless. `KeepsPromise` maps every step
  to a step of `Cascade` or a stutter. The part of `OrderInv` that the refinement
  needs is named `OwnerInv`, for the next module.

**`DeliveryProofs`** — `SuccessIsDelivered`: `Spec => []DeliveredResult` under
`Concurrency = 1`, with any number of runs one after the other, crashes and
expiring jobs. `DeliveryInv` says that the run in flight is alone (`StartRun`
found none), so what it wrote into the shared container is what it sends; that a
job it polls, if there is one, is its own; and that every job, those a dead
process left behind included, reads and writes the packages of the run it was
created for. The assumption is needed: `shared_env` refutes the property without
it.

**`ExpiryProofs`** — the same where `ttlSecondsAfterFinished` is set. A name may
then be freed under the run that polls it, `OwnJob` fails at once, and what could
go wrong is that another run takes the name and the two act on each other's job.
What keeps them apart is the `CascadeRun`: its name has the same prefix, so a
second run of that prefix is refused as long as it exists.

- `RecordsKeepNamesApart`: if no `CascadeRun` is deleted while its run is underway
  (`RecordsKept`), runs underway have different prefixes (`NamesApart`).
- `ExpiryLeavesOwnJobs`, `ExpiryTakesFinishedJobs`, `KeepsPromiseIfApart`: under
  `[]NamesApart` a run finds its own job or none (`OwnJobIfAny`), no job is removed
  while its pods run (`NoUnfinishedDelete`), and `Cascade` is implemented.
- `RecordsKeepPromise`: hence all three as long as nobody deletes a `CascadeRun`
  under its run; `AloneKeepsPromise`: and unconditionally under `Concurrency = 1`.

The condition is a hypothesis about users, not about the code, and it is about
behaviours: nothing in the controller prevents the deletion. `OwnerInv` is
inductive under it. Without it, and with several runs in flight, nothing is
claimed.

**`HelpersProofs`** — `RunsUseWaitGroup`: `Spec => UsesWaitGroup`, from `TypeInv`
and `HelpersStarted` (the goroutines that record the result are not started
before it is decided). `RunsRunOutOfSteps`: `[][...]` that every step of a run
lowers `StepsLeft`, a natural number that begins at `4 * NumStages + 6`. It is
the safety half of "every run ends", with no fairness: what is left to liveness
is that the thing a run waits for comes.

**`OperatorStatusProofs`** — `StatusTyped`, `ResultsAreCounted`,
`ActiveCountBounded`, `LostRepliesMiscount`. The inductive invariant `StatusInv`
adds that a copy whose version is current equals the status (`FreshCopies`), that
a goroutine still trying has written in earlier attempts only
(`AttemptsAhead`), that a heard write was in the last attempt (`HeardIsLast`),
and that results belong to runs that decided. From these a goroutine has at most
one acknowledged write (the lemma `AcknowledgedOnce`), so the writes that took
effect are one for each run that was told, and the unheard ones: this is
`LostRepliesMiscount`. `UpdatesAreAtomic` is the refinement
of `RunCounts`: a write that takes effect is one step of the counter, and
confirms the update unless its reply was lost; everything else stutters.
`UpdatesRunOutOfCalls`: `CallsRunOut`, with
`AttemptsBounded` (what is being tried is at one of its attempts).

**`ControllerProofs`** — `ControllerRuns`: the controller implements the
specification of its runs, so the theorems above hold of it. `ControllerTyped`.
`ShutdownAwaitsRuns`: `[]AwaitedRunsFinish`, from `Waiting`: while a waiter waits
its runs are counted or done, so `currProcess = 0` leaves only done, and a
crash that loses them also forgets the waiter. `ControllerKeepsPromise` and
`ControllerDelivers` carry the results about the runs over to the controller, the
cases of `ExpiryProofs` included.

**`ModuleReportsProofs`** — every safety property of `reports`: `ReportsTyped`, `LostRepliesRepeat`, `ReportsNotDropped`, `ReportsInOrder`, `StopIsHeardSoon`,
`RunsFlush`, and `ReportsAreRecords`, the refinement of `RunRecords`, for any
runs, reports, names, retries and faults. The inductive invariant `ReportsInv`
adds to them that a copy whose version is current equals the object
(`FreshCopies`), from which a write that takes effect is one step of
`RunRecords`; that a collector is busy with at most one report, and that this is
the last it took (`OneAtATime`, `Tickets`), from which the order follows; that
an update begins when its run decides or its report is taken (`StartedOnce`);
that an acknowledged write was in the last attempt (`HeardIsLast`); and that a
collector in its inner select has taken nothing yet while its run waits to stop
(`LittleOvertime`), since after each report `stop` is looked at first.
`LostRepliesRepeat` has an invariant of its own on top of these: an update still
trying has written in earlier attempts only (`AttemptsAhead`), and an object
shows a report no oftener than it was written (`Tallied`).

**`CollectorProofs`** — the same model, at the point where the run and its
collector meet. `StopIsReceived`: `[]StopFindsCollector`; `ReportsRunOutOfCalls`:
`CallsRunOut`; `CollectorsAreHelpers`: `UsesWaitGroup`. `MeetInv` adds to
`ReportsInv` that a run which works or stops has a collector, and a busy one is
at a report it took (`CollectorThere`), and that what is being tried has an
attempt left (`AttemptLeft`).

**Model-checked only:** liveness (`RunEndsOrJobGone`, `UpdatesEnd`,
`ShutdownCompletes`, `DeletionReleased`, `ComesToRest`): liveness under fairness
is beyond the proof system. What can be said without fairness is proved:
`StepsRunOut` and `CallsRunOut` exclude that a run, or an update it waits for,
goes round for ever, and `StopFindsCollector` that it waits for a collector that
is gone. Each safety property that a passing run checks, and each refinement, is
also a theorem; of `OwnJob` and `NoPrematureDelete`, and of `OwnJobIfAny`,
`NoUnfinishedDelete` and `Implements` in `ImageProcessing`, under the conditions
named above, and of `DeliveredResult` for one run in flight.

## 6. Not modelled

- **HTTP surface.** Validation, health and readiness keep no state and change
  none. The rate limiter asks a library's token bucket; a request it refuses
  reaches none of the modelled handlers.
- **Delays of the retries** (`retry.go:39-53`). Nothing depends on their length
  except time; with the only configuration in use (two attempts) they are five
  to seven and ten to twelve seconds, so neither the cap nor an overflow of the
  shift can be reached. In the models an attempt follows the previous one at any
  later moment.
- **Metrics.** The gauge of current runs is modelled, as it can go wrong; the
  counters and histograms are only ever added to, and the middleware observes.
- **Configuration** is read once, before the model begins, and appears as
  constants. **Logger**, **API types** (generated code included), construction
  of the clients: nothing to go wrong that the models could show. Nothing calls
  **`webhook/webhook.go`**.
- **Repeated reports.** What a module does when its post is not answered is not
  in the repository; a report carries no identity, so a repetition would be
  recorded as a second report, which the model covers as another member of
  `Reports` with the same name.
- **Joining the models.** `ImageProcessing` ends a helper in one step (`Return`,
  `Stop`), `OperatorStatus` and `ModuleReports` show what the helper does until
  then. The three meet in the `WaitGroup` and on `stop`, and nowhere else:
  `ImageProcessing` reads nothing that the helpers write, and they read nothing of
it but that the run has begun, and what it decided. That `ImageProcessing` and
`ModuleReports` keep to the same protocol, `WaitGroup`, is checked by the runs and
proved (`RunsUseWaitGroup`, `CollectorsAreHelpers`). `OperatorStatus` has no
collector and no end of a run: its goroutines are those that `ImageProcessing`
starts at the beginning and at the decision of a run, and what it owes the run,
that they end, is `CallsRunOut` and `UpdatesEnd`. A product of
all three is not built; it would add states and no question.
