# TLA+ verification of media-shuttle

media-shuttle takes a link, finds the files behind it, downloads them and
uploads them to a target. An HTTP API accepts tasks, celery workers on any number of
nodes do the work, MongoDB holds the records and Redis the queues. This
directory models the parts whose correctness depends on the order in which
several actors take their steps, checks them with TLC and proves the central
ones with TLAPS.

## 1. Inventory

| component | code | state | operations | talks to |
|---|---|---|---|---|
| task service (API) | `media-shuttle-api/app/service.py`, `queue.py` | the task document | create, admin retry | Mongo; publishes created events |
| task pipeline | `media-shuttle-core/core/queue/tasks.py`, `core/service.py` | the task document; messages in flight; the chord in the result backend | created event, download leg, upload leg, finalize, failure routing | Mongo; site, retry, upload queues |
| worker supervisor | `core/queue/worker_process.py` | subprocesses, their registry documents | start, wait, tick, signal, terminate | subprocesses, registry |
| worker control | `core/queue/worker_control_runtime.py`, `app/worker_control.py` | `_PROCS` in the memory of the control worker | start, stop, restart | control queues |
| core runtime | `core/runtime.py`, `consumer.py`, `publisher.py`, `worker.py`, `pipeline/service.py` | two queues, worker threads | pop, handle, route a failure | queues, task repository |
| worker registry | `core/storage/worker_registry.py`, `app/repository.py`, `app/service.py`, `app/worker_control.py` | one document per worker | upsert, patch, list with refresh, set, add a queue, rate limit | supervisor, celery hooks, API |
| local files | `downloaders_sites/common.py`, `core/utils.py` | files under the download root | write, clean up, prune | legs that share a node |
| queue routing | `core/queue/celery_app.py`, `worker_process.py`, `enums.py` | queue names by site, target, node | route an upload, list a worker's queues | broker |
| provider plug-ins | `core/plugins`, `core/providers` | registries of parsers, downloaders, uploaders | register, select | pipeline |
| site parsers and downloaders | `core/providers/parsers_sites`, `downloaders_sites` | none | parse, resolve and refresh a link, fetch | web sites, local files |
| uploaders | `uploaders_sites/telegram.py`, `rclone.py` | the shared Telegram client | upload | external services |
| bot, HTTP layer, deployment | `media-shuttle-tg`, `app/main.py`, compose files | none of their own | | API |

What makes them hard:

* **One document, many writers.** A task document is written by the API, by parse
  workers, by the legs of several sources and by finalizers; none of these writes
  is conditional. Correctness rests on the order in which events can come about.
* **Early acknowledgement.** Celery acknowledges a message when the handler takes it
  (`celery_app.py` sets no `acks_late`), so whatever a dying worker had in hand is gone.
* **Several steps, no transaction.** A status is written and then an event is
  published; a chord is published leg by leg; either may stop half-way.
* **Exceptions anywhere.** The supervisor's signal handler raises out of any instruction.
* **Read, then replace.** A worker document is never updated, it is replaced by what was
  read some time before; hooks, supervisors, listings and operators all do so.
* **Shared disks.** A file's path is a hash of its link. Legs of other tasks and
  attempts fetch, clean up and prune on the same disk at the same time.
* **Shared client.** All threads upload with one Telegram client, and each may close it.
* **Blocking calls.** BLPOP, `wait()`, and a control worker that waits for a busy worker.

The hazards, each at its line and with the properties that cover it, are listed in
`PROJECT.json`.

What makes each component correct: a task whose status says that work goes on has
work going on, SUCCEEDED means uploaded, retries are bounded, tasks settle
(pipeline); no process is left behind and the registry says how each ended
(supervisor); one managed worker per role, and what was stopped is gone (control); no
event is lost or taken twice (runtime); what an operator asked for stays in the document
and the document comes to be true (registry); no leg uploads another's file or leaves
half of its own behind (local files); a packet meets a worker that has its file
(routing); live mode does not invent files (plug-ins); a refused link is not asked for
again (downloaders); a client that runs is registered or about to be stopped, unless a
`stop()` of it has failed (uploaders).

## 2. Modules

| module | role |
|---|---|
| `TaskLifecycle` | abstract specification: absent, active, succeeded or failed |
| `CeleryPipeline` | the pipeline and the two API operations that feed it; implements `TaskLifecycle` |
| `CeleryPipeline_proofs` | theorems about `CeleryPipeline`, and the safety part of the refinement |
| `CelerySequential_proofs` | theorems about `CeleryPipeline` without admin retries and broker failures |
| `WorkerSupervisor`, `WorkerSupervisor_proofs` | `run_forever` of a core node and its worker processes |
| `WorkerControl`, `WorkerControl_proofs` | control commands, from the API to the managed processes |
| `CoreRuntime`, `CoreRuntime_proofs` | the threads of the runtime without celery |
| `TelegramClient` | the client the threads of a process upload with |
| `RuntimeUploads` | composition: the threads of `CoreRuntime` upload with `TelegramClient` |
| `RuntimeUploads_proofs` | theorems about the client in `RuntimeUploads`, which implements `CoreRuntime` |
| `WorkerRegistry`, `WorkerRegistry_proofs` | the document of one worker and everybody who writes it |
| `QueueRouting` | operators: the names of queues, as publishers and as workers build them |
| `Providers` | operators: the plug-in tables and their selection, what parsers return, how links are resolved |
| `SourceJourney` | composition: sources on their way through queues, workers, disks and providers |
| `SourceJourney_proofs` | theorems about `SourceJourney`, with lemmas about the tables of `Providers` |
| `MC...` | small instances of these for TLC |

Operators marked `Mutant:` in a module are wrong variants of the operator after them:
they document which plausible bug each property detects.

### CeleryPipeline

A *run* is one attempt on a task: `<<origin, task, attempt>>`, where the origin is the
request that published attempt 0 (`Create`, or one of the `Admins`). It is the
identity the code does not have, an event carries only `task_id` and `attempt`, and
it lets properties say which of two overlapping attempts wrote what.

| state | code |
|---|---|
| `status`, `sources`, `artifacts`, `lastError` | the fields of the Mongo document; `artifacts` is the run whose results are there |
| `request[origin][task]` | where `create_parse_task` or `admin_retry_action` is |
| `phase[run]` | where `process_created_event_logic` or `process_finalize_task_logic` of a run is, or its event is in a queue |
| `leg[run][source]` | where the download/upload chain of a source is |
| `chord[run]`, `uploaded[run]` | the result backend; what reached the target |

An action is the code between two accesses to something shared: one database write, one
publish, one upload. Queues are unordered pools, which includes what several
workers on several queues can do. `Faults` turns on what the environment may do:

* `"crash"`: a worker dies, or an exception leaves a handler outside its `try` block; the
  message it had is lost (`LoseRun`, `LoseLeg`, `LoseScheduling`);
* `"database"`: a call inside the `try` block of the created event raises;
* `"publish"`: the broker fails, also in the middle of a chord (`ScheduleFail` publishes
  any subset of the legs), or the API stops between its write and its publish.

Abstractions: a parser finds any non-empty subset of `Sources`; any download or upload
may fail; the `limit` of an admin retry is any non-empty subset of the FAILED tasks. A
task's record exists before its event (`EventHasRecord`, proved), so the branch
of `create_task_from_event` that creates one is not reached.

### WorkerSupervisor

`pc` is the place in `run_forever`, `at` the slot its current loop is at,
`proc` the subprocess of a slot, `told` whether SIGTERM was sent, `record` and `fresh` the
status in the registry and whether its heartbeat is recent. `Signal` is enabled at every
location and goes where the exception would: out of the program before the `try` and in
the `finally`, to the `except` inside the `try`, to the `finally` from the `except`.
`RegistryFails` does the same for a registry that raises. The worker's hooks swallow
registry errors (`Touch`). `Restart` is the restart policy of the compose file; the
worker processes left in the container end with it.

### WorkerControl

A process is named by the command that started it. `managed` is `_PROCS`,
`stopping` the command whose handler waits for a terminated process, `proc` and
`told` the processes. `_record` drops a dead entry; here a dead entry is ignored (`Slot`),
which is what every use of `_PROCS` does. `ControlCrash` loses `_PROCS` and leaves
the processes (they become `disowned`); `NodeRestart` is the restart of the
container. A command whose publish fails was never given; the `status` action has
no publisher. Strangers are node ids no node has: the operator may put a command
for one into the shared queue, where the first node to take it answers `node_mismatch`.

### CoreRuntime

A thread's `loop` says where it is in `_loop`: looking at the retry or the created queue,
about to pop (in memory the look and the pop are two steps), in `handle_event`, or
about to route a failure. With `Backend = "redis"` `Find` is BLPOP, one step, and an empty
retry queue blocks (`Returns`). The working statuses of the inline pipeline are one,
`"RUNNING"`. Failing publishes and the test entry point `run_workers_once` are not modelled.

### TelegramClient and RuntimeUploads

`registered` is `_TELEGRAM_CLIENT`, `lock` the holder of `_CLIENT_LOCK` where it is held
across something slow (the start of a client), `mine` the client a thread has in a local
variable, `step` its place in `upload_telegram_live`. Short critical sections are one
action. A send can succeed only with a client that nobody has stopped; it can fail at
any time, with or without an exception that invalidates the client. The exception of a
`stop()` is swallowed: of the clients in `Unstoppable` it may leave one running, which the
history variable `adrift` remembers and the code does not. `Clients` bounds the clients that
exist at once.
`RuntimeUploads` lets a thread whose event is being handled go through an upload
(`Uploading`), ends the event with the upload's outcome (`EventSucceeds`, `EventFails`,
`EventRaises`) and leaves the rest of the loop as it is (`Turn`). An event has one source.

### WorkerRegistry

`doc` is the document of one worker, reduced to the fields its writers treat in
different ways: `status`, `desired` (`desired_concurrency`), `queues`, and whether
`rate_limits` has an entry. A writer is the worker's hooks, its supervisor, a listing
with refresh, or one request of an operator; `at` is its place, `seen` what it has read
or is about to write, `wants` what it was asked. Every access to Mongo and every
broadcast or inspection is an action of its own, because what is written depends on what
was read before them. `Used` keeps of the document what the writer uses, so that states
differ only where the code's behaviour can. `supervised` tells a child of `worker_process`,
the only one (`"single"`) or one of `"several"`, from a process the control worker has started
(`"no"`). A supervisor marks a worker READY once (`marked`); it ticks only if it has several,
since with one process `_wait_for_any_exit` waits for that and nothing else.
`intent` and `limited` are history variables: what the operators must find in the document.
They are given up when another writer had read before (`Contested`), which is the lost
update the code accepts, and when a listing rewrites the concurrency.

### SourceJourney, Providers, QueueRouting

`Providers` has no state. A web site may answer anything of the right form, so a parser
is the set of lists it may return (`Raises` for an exception, `Nothing` for `[]`), and the
registries are sequences searched in order. A link is a page or the bytes of a file,
numbered when a site issues it for a time. `OnPage` has the links a page of BUNKR shows, the
file's own and any other: `BunkrActual` may take each, as the code takes the first URL that
ends like a file. Simplified: what a direct link of a site looks like (`IsDirect`), and the
several forms of MEDIAFIRE and TURBO links, which are one form here.
`Asked` gives the places of the active providers that match a URL or a source, `First` the
one that is asked first. `QueueRouting` has the queue names on both sides.

`SourceJourney` is the life of a leg: `leg[l].pc` its place, from `process_download_source_logic`
to `process_upload_result_logic`; `disk[node][link]` what is at the path of a link, as
`materialize_path` gives it; `writing` the legs whose open file is still the one at
their path, because unlinking a file does not stop who writes it. `Open` and `Fill` are the
two halves of `write_bytes`, `Unlink` and `Prune` the two halves of
`cleanup_local_download`. `Vanish` is a site that takes a file down. `setup` is the
configuration, chosen once: mode, affinity, roles of the nodes, sites with a queue,
extensions and the URL that is parsed, any number of times, until `MaxLegs` legs exist.
`JourneyAssumption` excludes URLs of MEGA and TRANSFERIT that are direct links: those lie on
hosts that the parsers do not take for theirs (`downloaders_sites/mega.py:39`,
`downloaders_sites/transfer.py:40`).
`Apart` is the condition under which legs do not meet at one path: the sources are
different files that the site still has. Without it legs do overwrite and remove each
other's files; the same download URL, twice at the same time on one node, is not
protected by anything in the code. `NoLitter` holds without it.

## 3. Runs

| run | bounds | shows |
|---|---|---|
| `pipeline_faults` | 1 task, 2 sources, 1 retry, all faults | `StatusHasOwner`, `SucceededIsUploaded`, `RetryBudget`, and that `IInv` is an invariant |
| `pipeline_sequential` | 1 task, 2 sources, 2 retries, crashes and database errors | attempts never overlap (`OneRunAtATime`); so success is final (`SucceededIsFinal`) and the record is not put together from several runs but where the code leaves it so (`RecordMatchesRun`) |
| `pipeline_live` | 1 task, 1 source, 1 retry, an admin retry, no faults | every task settles; the pipeline implements `TaskLifecycle` |
| `pipeline_requeue` | the same | **violated**: an admin retry requeues a task that is running again |
| `supervisor` | 2 workers, all faults | `NoOrphans`, `FinalRecordIsOfExit`, `HeartbeatGoesOn`, `WorkerComesBack` |
| `supervisor_heartbeat` | 1 worker | **violated**: a single-role supervisor has no ticks |
| `control` | 1 node and a stranger, 1 role, 3 commands, crashes | `AliveIsManaged`, `StoppedIsGone`, `CommandsAreHandled` |
| `control_stop` | the same without crashes | **violated**: a stop of a stopped role starts it |
| `runtime` | 2 tasks, 3 threads, 3 clients of which one may resist its `stop()`, 1 retry, failing repository | `OnePlacePerEvent`, `SomeThreadLives`, `FailsOnlyAfterRetries`, `EveryEventIsHandled`; with uploads also `RegisteredIsLive`, `OnlyFailedStopsLeak`, `UploadsEnd` |
| `runtime_redis` | 2 tasks, 2 threads | **violated**: every thread blocks in BLPOP on the retry queue |
| `registry` | 1 request of any kind, two concurrencies, hooks, supervisor and listings | `IntentKept`, `LimitKept`, `RecordHeals` |
| `journey` | 2 legs, 2 nodes, 10 sites, both modes, with and without affinity and extensions | `WholeFiles`, `FileAwaitsUpload`, `NoLitter`, `LiveIsLive`, `RetryAsksAnew`, `LegsEnd` |

Why the bounds are enough. Tasks share nothing but the choice of `AdminList`, so one
task exhibits every interleaving on one document; two sources are needed for legs to
race, one retry for attempts to race and for the budget to bite. `pipeline_sequential` has two,
so that a run that parses can come after one that does not, and before another; the theorems
remove these bounds. Two workers make the supervisor's loops and its tick differ from
its `wait()`; the third command meets a node on which a first was undone by a second
or by a crash, and a control worker treats roles independently. Three threads let two die
of the pops of a third: the created queue of two tasks can mislead no more; and only two
threads have an event at a time, so that a third client lets one be adrift beside the two
they hold.
In `registry` one request already meets three other writers, two of which repeat for ever;
a second request would be one more read and later replacement of the whole document,
as the others are; that two requests which race change nothing is proved. In `journey` two legs race for one directory, and the table of set-ups
(`MCSetups`) covers every way through the providers: a live parser that lists, one that
passes the URL on, one that falls through to the generic one; downloaders that get,
resolve, refresh or refuse. Sites left out (GOFILE, GD, SAINT, COOMER, CYBERFILE) go the
way of one that is in. Affinity and roles are combined for one site, as no provider looks at them.

**Fairness.** `CeleryPipeline`: weak fairness of `System`, all steps of workers, API
servers and the result backend together: some worker takes some step while there is
work. The workers consume in a loop and the runs do no more than finitely many steps, so
nothing finer is needed. Clients and faults are not fair.
`WorkerSupervisor`: the supervisor is a running program, and docker restarts it; nothing
is assumed of the workers, which may ignore SIGTERM for ever. `WorkerControl`: each
control worker runs (its supervisor restarts it); processes are not fair.
`CoreRuntime`: each thread runs its loop; the repository may raise and need not.
`RuntimeUploads`: the same, and a call of the client is assumed to return.
`WorkerRegistry`: the supervisor marks the worker it has started, and ticks for it if it has
several; a hook, a request or a listing that has begun ends; workers, operators and the begin
of listings are not fair. `RecordHeals` has the conditions under which it holds in front: the
worker stays up, and its supervisor has several or it is listed again and again.
`SourceJourney`: each leg's next step is taken by some worker that may take it. Parsing and
vanishing are not fair. `LegsEnd` has in front that some node downloads, that nodes
which download also upload, and that the site has a queue that is read.

**Deadlock** is checked where the system never rests (`supervisor`, `runtime`) and off
where it does: all tasks settled with no retry left, all commands given, or all legs at
their end. It is on in `registry` too.

**Symmetry** is used in the safety run of the pipeline only.

## 4. Disagreements found

1. *Admin retry overwrites a running task* (`service.py:352`). The status check is on the
   record read before. The two pipelines that follow are harmless to `StatusHasOwner`,
   `SucceededIsUploaded` and `EventuallySettles`, which hold with admin retries too, but
   the record is a mixture, and a success may be undone by the other run.
2. *No heartbeat with a single role* (`worker_process.py:292`).
3. *`stop` starts a worker that is not running* (`worker_control_runtime.py:106`).
4. *BLPOP with timeout 0* (`runtime.py:79`): the Redis mode of the celery-free runtime never
   takes a created event. The fake client of the tests returns at once.

In more places the code does less than one may expect. They are written into properties as
exceptions, so that the run would notice any other:

* a listing with refresh, the default, replaces the concurrency an operator asked for by
  the pool size (`service.py:81`), although `service.py:247` takes care to persist the
  "operator intent": `IntentKept` gives it up at a listing;
* an upsert of the core drops `rate_limits` (`worker_registry.py:127`): `LimitKept` gives the
  limit up there;
* after a refusal, FILESTER, TURBO and (for a URL that is a file) MEDIAFIRE hand the same
  link back (`filester.py:80`, `turbo.py:77`): the exceptions of `RetryAsksAnew`;
* GENERIC sources are invented in live mode (`downloaders_builtin.py:123`), and BUNKR and
  CYBERDROP may upload a web page in place of the media: the exceptions of `LiveIsLive`.
  An extension that parses a site of its own and does not download it has an invented file
  uploaded too;
* for a page of BUNKR the first URL in it that ends like an image, a video or an archive is
  taken (`downloaders_sites/bunkr.py:26`), a preview or a related file as well: `WholeFiles`
  asks there only that what is uploaded is the whole of some file of the page;
* a run that fails to parse writes its status and error but leaves the sources and artifacts
  of an earlier one (`tasks.py:325-331`): `RecordMatchesRun` says of which. A run whose
  finalizer dies between its two writes (`tasks.py:425`) is lost, and the property does not
  speak of it;
* a supervisor that ends, because one worker has exited, terminates or kills the others and
  records those that do not exit with 0 as CRASHED, with `exit_code=-15` or `-9`
  (`worker_process.py:286`, `:370`): `FinalRecordIsOfExit` says that CRASHED is a crash only
  of a worker that was not told to go;
* an exception of `client.stop()` is swallowed (`telegram.py:134`), "telegram client closed" is
  logged and the client, which may be connected still, is forgotten: `OnlyFailedStopsLeak`;
* a supervisor with a single role never mends a status that an operator's request has
  written over the worker's READY (`service.py:128`): the condition of `RecordHeals`.

## 5. Proofs

Every safety property the passing runs check is a theorem, for all values of the constants
that the modules' assumptions allow; TLC and the proofs use the same definitions. Each proof
rests on an inductive invariant, a conjunction of named parts (`IInv`, `SInv`, `PlaceInv`,
`ClientInv`), which was checked with TLC before it was proved. A module of proofs has one
lemma per part and group of actions, and its theorems combine them with `PTL`.

### The pipeline

`CeleryPipeline_proofs`: every set of tasks, sources and admin requests, every `MaxRetries`
in `Nat` and every set of faults, from `PipelineAssumption`.

| theorem | statement |
|---|---|
| `TypeCorrect` | `Spec => []TypeOK` |
| `Invariance` | `Spec => []IInv` |
| `NoTaskIsForgotten` | `Spec => []StatusHasOwner` |
| `SuccessIsReal` | `Spec => []SucceededIsUploaded` |
| `RetriesAreBounded` | `Spec => []RetryBudget` |
| `RecordBeforeEvent` | `Spec => []EventHasRecord` |
| `LifecycleIsKept` | if `Faults = {}`: `Spec => Lifecycle!LifeSteps` |

`StatusHasOwner` is not inductive. A leg writes DOWNLOADING or
UPLOADING, and the run it belongs to owes a final status only if its chord is still
open or broken: `LegsHaveChord`. That in turn needs that the chord fires only when
no leg is left and that legs start only at a scheduled run: `LegsMatchPhase`. A retry
overwrites the phase of the next attempt, so that attempt must be unused:
`PublishedOnce`. A request writes QUEUED only to a record that exists
(`RequestHasRecord`). `SucceededIsUploaded` needs that a finalizer without failures sees
legs that are all `"ok"`, hence uploaded (`UploadedMatchesLegs`), and that a complete run
stays complete.

`LifecycleIsKept` is the safety part of `ImplementsLifecycle`. A step is about one task
(`RunIsAbout`, `LegIsAbout`, `RequestIsAbout`), and leaves a task with work in flight active
unless it was the last of it; an idle task is settled (`IdleIsSettled`), because without
faults no run is lost (`Undisturbed`). With faults the statement is false: a message that
is lost leaves a task that is neither worked on nor settled, as `StatusHasOwner` says.

`CelerySequential_proofs` is about the same specification under
`Unattended == Admins = {} /\ "publish" \notin Faults`, the condition of the run
`pipeline_sequential`. Both halves are needed: run `pipeline_requeue` shows what an admin retry
does, and a chord of which only some legs were published is retried while these still work.

| theorem | statement (under `Unattended`) |
|---|---|
| `SequentialInvariance` | `Spec => []SInv` |
| `AttemptsNeverOverlap` | `Spec => []OneRunAtATime` |
| `RecordIsOfLastParse` | `Spec => []RecordMatchesRun` |
| `SuccessIsFinal` | `Spec => SucceededIsFinal` |

The core of `SInv` is `Superseded`: once an attempt is published, the ones before it have been
routed to it and have no leg left. So the run that takes a step is the only one of its task
(`ActorIsCurrent`, `Alone`), and what the record says of it (`OutcomesRecorded`) is not disturbed
by another. `RecordShowsLastParse` says whose sources and artifacts the record has, at any time:
those of the last run that found something, as far as that run has come, which
`LegsOfPhases` ties to its phase; a run that finds nothing leaves them (`ShownStays`).

### The supervisor and the control workers

| module | theorem | statement |
|---|---|---|
| `WorkerSupervisor_proofs` | `TypesHold` | `Spec => []TypeOK` |
| | `WorkersAreGone` | `Spec => []NoOrphans` |
| | `LastRecordIsOfExit` | `Spec => []FinalRecordIsOfExit` |
| `WorkerControl_proofs` | `TypesHold` | `Spec => []TypeOK` |
| | `ProcessesAreKnown` | `Spec => []AliveIsManaged` |
| | `StopsAreSeenThrough` | `Spec => []StoppedIsGone` |

`WorkerSupervisor`: any number of workers, any faults, signals at any location. `Started` says
how far the first loop has come, so that the `finally` block knows every subprocess; `Ended`
that nothing runs past `_terminate_workers`; `LastWord` that the slots the last loop has
passed keep their final status (`Reported`), which no late write of a hook replaces; `ToldFirst`
that only workers which were told to go are killed.

`WorkerControl`: any nodes, roles, commands and crashes. A process is named by its command, so
it must be known that a command is handled once: it is in one place of one queue
(`QueuedOnce`) and has started nothing before it is handled (`QueuedIsNew`, `StoppingIsNew`);
and that a control worker has only processes of its own node and of the right role in its
dictionary (`ManagedIsOwn`). With these the two properties are inductive.

### The runtime and its uploads

| module | theorem | statement |
|---|---|---|
| `CoreRuntime_proofs` | `TypesHold` | `Spec => []TypeOK` |
| | `EventsKeepTheirPlace` | `Spec => []OnePlacePerEvent` |
| | `AThreadLives` | `Spec => []SomeThreadLives` |
| | `RetriesAreUsedUp` | `Spec => FailsOnlyAfterRetries` |
| `RuntimeUploads_proofs` | `TheRegisteredClientRuns` | `UploadSpec => []RegisteredIsLive` |
| | `ClientsLeakByFailedStopsOnly` | `UploadSpec => []OnlyFailedStopsLeak` |
| | `UploadsAreInvisible` | `UploadSpec => Spec` |
| | `EventsSurviveUploads` | the four statements of `CoreRuntime_proofs`, for `UploadSpec` |

`CoreRuntime`: both backends, any threads, tasks and retries. `OnePlacePerEvent` counts places;
the proof has instead that no two places hold the event of one task (`QueuedOnce`,
`HeldOnce`, `QueuedOrHeld`), that only unfinished events are anywhere (`OnlyPending`), and that
each of them is somewhere (`NoneLost`). `SomeThreadLives` is not inductive: a thread dies
when it pops from a queue that was emptied since it looked. `ThreadSafe` says that some
living thread will not die of its next pop; the one that empties a queue is such a thread.

`RuntimeUploads`: `RegisteredIsLive` and `OnlyFailedStopsLeak` are not inductive: a thread whose
client has just started registers it, which would forget a client that was registered, or
register one that another thread is about to stop. `BuiltUnderLock` excludes both: the
builder holds the lock, nothing is registered, and nobody else has its client in hand.
`StoppedOnce` adds that a client is stopped by one thread and once, so that one that is adrift
is never registered again. The
refinement mapping of `UploadsAreInvisible` is the identity: a step of an upload leaves the
variables of `CoreRuntime` alone, and an event that ends with an upload ends as it may
without.

### The worker document

| module | theorem | statement |
|---|---|---|
| `WorkerRegistry_proofs` | `TypesHold` | `Spec => []TypeOK` |
| | `IntentStays` | `Spec => []IntentKept` |
| | `LimitStays` | `Spec => []LimitKept` |

Any number of requests that race, where the run has one. The document is replaced by
what its writers have read, so the invariant speaks of their hands too: `IntentCarried` says
that the document and everyone who will write back the concurrency it has read
(`Passes`) carry the intent; `LimitCarried` the same of the limit, and that nobody is about to
create a document. `Shape` ties what a writer has at hand to the place it is at.

### The journey of a source

`SourceJourney_proofs`: any nodes with any roles, any set-ups `JourneyAssumption` allows and any
number of legs, where the run has two nodes and two legs.

| theorem | statement |
|---|---|
| `JourneyInvariance` | `Spec => []IInv` |
| `TypesHold` | `Spec => []TypeOK` |
| `FilesAreWhole` | `Spec => []WholeFiles` |
| `FilesAwaitUpload` | `Spec => []FileAwaitsUpload` |
| `DisksAreCleared` | `Spec => []NoLitter` |
| `LiveStaysLive` | `Spec => []LiveIsLive` |
| `RetriesAskAnew` | `Spec => []RetryAsksAnew` |

Three groups of lemmas carry it. The first is about the tables: which downloader and
uploader `First` finds (`DownloaderIs`, `UploaderIs`), and what a URL may be parsed into
(`ParsedIsFound`). The second is about one leg (`Good`): where it may be with what still to
do (`Course`), which of the links a site has issued it has (`Asking`: one that was refused is
of an earlier number than the one now requested), and which site and file its links are of
(`Origin`). `Good` is preserved by each action of the leg and not touched by others. The third
is about the disks, which all legs share:

* `Owned`, with affinity: what is at a path belongs to a leg that is there and will remove it,
  or keeps it on purpose. A leg may write into a directory another one has made, and remove a
  file another has written; then the other one is an owner too, and it is enough that one
  is left. `NoLitter` is what remains when all are over.
* `Undisturbed`: if the legs are of different files, each finds what it wrote. This cannot be
  said of the leg alone: that an upload without affinity reads the right file on a node which
  has one needs that every file on a disk was fetched by a leg of that node.

### Only model-checked

Liveness needs fairness and ENABLED, which are beyond the prover: `EventuallySettles`,
`HeartbeatGoesOn`, `WorkerComesBack`, `CommandsAreHandled`, `EveryEventIsHandled`, `UploadsEnd`,
`RecordHeals`, `LegsEnd`, and the fairness part of `ImplementsLifecycle`. The properties of the
violated runs are of course not theorems.

## 6. Not modelled

* The inline path of `_schedule_source_pipelines` (celery without group and chord).
* Celery, its chord and Redis themselves: modelled from their use; a message is delivered
  once or lost, never twice.
* Parsing, downloading and uploading in `CeleryPipeline`: any outcome their result types
  allow. `SourceJourney` has them in detail, without records and retries of a task: a retry
  is one more `Parse`.
* Page scraping, signatures, the ciphertext MEGA serves, file names and remote folders.
* `MEDIA_SHUTTLE_CLEANUP_ON_UPLOAD_SUCCESS=0`, which keeps every file; upload targets and
  uploaders of extensions, and extensions that replace a built-in site.
* A crash in the middle of a leg of `SourceJourney`: the file it had begun stays on the disk
  until a leg with the same link writes it anew. `CeleryPipeline` has the crashes.
* Several sources of one event in `RuntimeUploads`: they are uploaded one after the other.
* The fields of a worker document that all writers copy alike (role, node, pid, exit code,
  times), and `heartbeat()`, which nothing calls.
* Messages, timestamps, logs, listing of tasks and statistics; the bot and the HTTP layer,
  which keep no state.

## 7. Plan

Modules, in order:

1. `CeleryPipeline` with `TaskLifecycle`: done, core invariants proved.
2. `WorkerSupervisor`, `WorkerControl`, `CoreRuntime`: done.
3. `WorkerRegistry`; `QueueRouting`, `Providers` and `SourceJourney`; `TelegramClient` and
   `RuntimeUploads`: done.
4. Open: `WorkerSupervisor` refined by `WorkerRegistry` (its `record` and `fresh` are fields
   of `doc`); the inline path of the pipeline.

Proofs:

1. the invariants of every module and its action properties, and the safety parts of the two
   refinements (`TaskLifecycle`, `CoreRuntime`): done.
2. Open: the safety part of `ImplementsLifecycle` under faults, which needs an abstract
   specification in which work may be lost; what remains of `WholeFiles` without `Apart`;
   the refinement of 4.
