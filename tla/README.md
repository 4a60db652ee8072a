# Verification of the Chronos-2 fine-tuning server

The server (`src/app`) accepts fine-tuning jobs over HTTP, keeps them in a
SQLite table, trains them one after another in a background thread, and
publishes and serves the resulting models. This directory holds TLA+ models of
it, the TLC configurations that check them on small instances, and TLAPS
proofs of the safety properties for every size of instance.

Paths below are relative to `src/app` unless they begin with `src/`.

## Inventory of the system

| Part | State | Operations | Talks to |
|---|---|---|---|
| Job queue (`services/queue_service.py`) | a process-wide `queue.Queue` of job ids, lost with the process | `enqueue`, `dequeue` (0.5 s poll), `remove`, `initialize_queue`; `remove_many` has no caller | handlers and worker, under the queue's mutex |
| Job store (`db/crud.py`, `db/models.py`) | rows of `finetune_jobs` (status, `cancel_requested`, progress, paths) and `finetune_job_losses`; survive a crash | one function per committed transaction: create, find, list, update status, mark completed, failed or cancelled, set the flag, delete, progress, loss point | every other part |
| Job handlers (`api/finetune.py`, `api/train_jobs.py`, `services/job_service.py`) | none of their own; an open request | create, cancel, delete, batch delete, detail, list, log | store, queue, artifact directories |
| Training worker (`workers/trainer_worker.py`, `services/trainer_service.py`) | the thread's program point, the job it has, the group it trains | poll, load, start, prepare, fit and save each group, finish | queue, store, directories, progress callback |
| Training progress (`callbacks/progress_callback.py`) | step, base step of the group, last loss | step end, trainer log, group start and end, the cancellation check | store, log file |
| Start-up (`main.py`) | | `requeue_pending_jobs`, `lifespan` | queue, store, worker |
| Model release (`services/model_release_service.py`, `model_metadata_service.py`, `api/model_publish.py`) | published directories with `metadata.json` | replace a release, read its metadata | artifact directories; readers of releases |
| Chunk inference (`services/chunk_inference_service.py`) | `_TASK_CACHE`: loaded models per task id, under an `RLock` | find or load, expire, refuse at capacity, release | releases |
| Inference (`services/inference_service.py`) | none | sliding window over a history | releases, the model library |
| Offline clients (`cli/infer_cli.py`, `runtime/zmq_infer_server.py`) | none; processes of their own | one inference after another | releases, unprotected |
| Status adapter (`services/train_job_adapter.py`) | none | map status, loss data, duration, errors | handlers |
| Database set-up (`db/init_db.py`) | the schema | create tables, add columns, rebuild the table of loss points | store, before anything else runs |
| Schemas (`schemas/request.py`) | none | refuse a request | handlers, inference |
| Data loading, configuration, authentication, tools, scripts | none that matters here | | |

What is hard here:

* **The worker interleaves with the handlers.** Every handler is an `async def`
  that never awaits, so one handler runs from start to end before the next one
  starts. The worker is a thread: its steps fall between any two commits or file
  operations of a handler, and the handlers act on rows they read earlier.
* **A crash** loses queue, worker and open requests but not rows or files, and
  falls between any two commits.
* **A deletion** waits for the worker inside the event loop, for at most 15 s,
  and the answer of the worker may come just before or after that.
* **Several resources per operation**: a creation makes a directory, a row and a
  queue entry, a deletion removes them in the order queue, files, row; neither
  is a transaction.
* **Swallowed errors** in the progress callback.
* **A release is replaced in place**: deleted, copied, then described by
  `metadata.json`, while other processes read it and while the job it comes from
  may be half deleted.
* **An upgrade changes the schema statement by statement**, and SQLite makes some
  of them durable at once and others together.

For each part, what makes it correct: the queue holds an id at most once and
loses none; the store revives no deleted row and lets no finished job run again;
the worker leaves no live job behind and a completed job has its models; a
request is always answered; a restart finds every unfinished job; a release is
complete when it is visible and every target is answered by its own model; an
upgrade loses no data and always ends in a service that runs; the cache gives a task the model it asked for and
stays within its capacity; a forecast has one value per predicted time.

## Modules

`JobQueue` – the operations of the queue as functions on the sequence of waiting
ids. Each runs under the queue's mutex in the code, so each is atomic.

`JobStore` – the rows as a function from job ids to `[status, cancel]` (`NoRow`
if there is none) and one operator per transaction of `crud.py`. An update of an
id without a row writes nothing, as `get_job_by_id` returning `None` does.

`FinetuneService` – composes queue, store, handlers, worker, start-up and crash.

| Variable | In the code |
|---|---|
| `db`, `born`, `clock` | the table; `created_at` as the number of the insertion |
| `outputDir`, `models` | whether `artifacts_root/<job id>` exists; the groups whose checkpoint is in it |
| `queue` | `_global_queue` |
| `worker` | `[pc, job, group]`: where `_process_job`/`train_chronos2` is |
| `req` | per request: program point, the row it is at, the rows of a batch still to come, how the deletion was asked for, whether a row was skipped |
| `up`, `crashes` | is the process running; how often it has ended |

Each action is the code from one commit, queue operation or file operation to the
next. `Create`, `InsertRow`, `EnqueueJob` are the creation; `Cancel` reads the
row and `CancelQueued`/`CancelRunning` write it; `Delete`/`BatchDelete` begin a
deletion, `CancelFirst`, `AwaitStopped`, `AwaitTimeout` are
`_cancel_running_and_wait`, `DequeueDeleted`, `RemoveFiles`, `DeleteRow` the three
steps of the deletion proper and `NextCandidate` the loop of the batch. `WDequeue`
to `WFail` are the worker, in the order of `_process_job` and `train_chronos2`.
`Crash` ends the process anywhere; `Boot` is `lifespan` up to its `yield`, in which
nothing else runs.

Abstractions, and why they lose nothing the properties see:

* `shutil.rmtree` and `save_pretrained` are one step each: no handler of this
  model reads a directory while it is being written.
* The log file is removed with the directory.
* Only the last look at the cancellation flag before each lasting effect is a
  step; the earlier ones (every training step) only stop a job sooner.
* All jobs have `NumGroups` groups; data, hyperparameters and progress columns
  are left out.
* A refused request (400, 404, 409) changes nothing and is no step.
* `created_at` is strictly increasing; two rows of one microsecond would be listed
  in either order, on which no property depends.
* Every database call succeeds. `TrainingRun` is where the worker's calls fail; the row
  deletion that raises is in `ModelRelease`.

`JobLifecycle` – the abstract specification: what a client may see of a job through
`GET /api/train_jobs/{id}`. `shown[j]` is absent, pending, running, completed, failed or cancelled, and
`asked[j]` whether a running job has been asked to stop. `Submit`, `Begin`,
`Finish`, `Ask`, `Cancel` and `Remove` are what may happen to it; there is no queue, worker,
handler, directory or crash. `FinetuneService` implements it with
`shown` as `map_status` of the row (`Shown`) and `asked` as its flag. What a reader would not
expect of a lifecycle is what the code's unconditional writes make of a row read earlier, and
the specification allows it by name:

* `Begin`: a job that was shown as cancelled may be shown as running again, because the
  worker writes `running` over what it read (`services/job_service.py:180`);
* `Finish`: a cancelled job may be shown as completed or failed, when the cancellation came after
  the worker's last look (`workers/trainer_worker.py:144`);
* `Cancel`: a job that has completed or failed may become cancelled, when the
  handler read it while it waited (`services/job_service.py:454`, `db/crud.py:354`).

`TrainingRun` – one job inside the worker, below the grain of `FinetuneService`: the
steps of the trainer, the callback's writes of progress and loss points, and the
session they share with `_process_job`.

| Variable | In the code |
|---|---|
| `row`, `points` | status, `cancel_requested` and `current_step` of the job; its rows in `finetune_job_losses` as (group, step) |
| `usable` | whether the worker's SQLAlchemy session still accepts statements |
| `pc`, `group`, `step` | program point; `active_group_index + 1`; `state.global_step` |
| `asking` | what an open `request_cancel_job` has decided to write |
| `logged` | ghost: the losses the trainer has reported in this run of the job |

`TrainStep` is a trainer step with the cancellation check at its end. If the trainer logs
there it goes to `Report`, the check at the start of `ProgressCallback.on_step_end`, and then to
`Progress` and `Point`, its two transactions; `Summary` is the log without a loss at the end
of a group. `Base`, `Overall` and `GroupStep` are the arithmetic that turns the trainer's
step into the overall step and back into the step of the group. `Upsert` finds a point by the *stripped*
target and the step (`db/crud.py:371`): `Curve` gives each group its stripped target, and groups that differ
by a blank, which the validator accepts (`schemas/request.py:178`), are `Namesakes` and write one curve.

A call of `crud.py` is a query, a write with its commit, and a refresh. `Raise` is a call
that raises: at its query (nothing written, the session goes on), at its commit (nothing
written, the session refuses everything from then on), at its refresh (written, the session
goes on); or the session already refuses, or the row was deleted after it was read. The first three
cost one of `MaxFaults` and happen at the program points in `Faulty`. `Load` and `Decide` are reads that may raise,
and `CheckCancel` is the check that takes a read that raises for "not cancelled". SQLAlchemy and the trainer
are external: what is assumed of the session is that a commit that failed leaves it refusing
every statement until `rollback()`, which nothing in `src/app` calls, and that a failed query does not; and of the trainer
that it calls `on_step_end` after each step, `on_log` with a loss after steps of its
choice and once without a loss at the end. The calls of the handlers do not fail here: each handler has a
session of its own and answers 500, and has then made its one write or not, like a request that was answered or never came.
A cancellation reads the row
(`RequestCancel`) and writes what that calls for later (`MarkCancelled`, `SetFlag`), on
whatever the worker has made of the row meanwhile: a job that trains may already be marked cancelled.
`Delete` and `Restart` are the effects of a deletion and of `Boot` on this one job, each
in one step; the stages of a deletion are `FinetuneService`'s.

`JobDetail` – extends `TrainingRun` with a client that polls the job. `poll` is the request
and what it has read. `Poll` reads the row and, in a later step, the loss points
(`get_job_detail`); only the worker runs between the two, since the handler does
not let go of the event loop. `Shown` and `Asked` are the row as a client sees it, and
map its steps to those of `JobLifecycle` for one job that has been submitted. `LastResort` is
what failing calls add: `_process_job` ends every exception with `failed`
(`workers/trainer_worker.py:157`), for a job that was never marked running because the read or the write before it
failed, and over `completed` when only the refresh after that commit failed (`db/crud.py:275`).

`SchemaMigration` – `init_db` on a database of any older version.

| Variable | In the code |
|---|---|
| `columns` | which of `model_paths` and `target_model_map` the table of jobs has |
| `layout`, `points`, `index` | columns of `finetune_job_losses` (no group and no target, no target, no group, new, no table) and its rows; the table that owns `ix_finetune_job_losses_job_id` |
| `old` | the rows of `finetune_job_losses_old` |
| `pc`, `faults` | the statement start-up is at; crashes and failed copies so far |
| `request`, `legacy`, `interrupted` | never change: the targets of each job, the points before the upgrade, the jobs that were running |

`CreateTables`, `AddColumns`, `InspectLosses`, `Rename`, `Create`, `Copy` are the statements in
order, cut where SQLite under Python's driver makes them durable: a `CREATE` or `ALTER` at once, the
`INSERT` with the `DROP` and the index at the commit. The `INSERT` names every point after its group and
never reads a stored target (`Converted`); points without a group become those of group 0, and where two of a job had the same
step for two targets (`Clash`) the `UNIQUE` constraint refuses the copy (`CopyFails`). `Curves` is
`_build_loss_metrics`, which reads the result and turns `group_1` back into a target.

`ModelRelease` – one job from training over publication to deletion, and the processes
that read its release.

| Variable | In the code |
|---|---|
| `groups`, `prefix`, `mapped` | never change: `selected_groups`; `FINETUNED_CKPT_NAME` while it was trained; whether the row has a `target_model_map` |
| `status`, `present`, `source` | the row; `output_dir`; per name, how much of its model is in it |
| `release`, `meta` | the same for the release; `metadata.json` |
| `handler`, `answer`, `cut` | the publication or deletion being handled; what the last publication was answered; ghost: a crash or an error cut a deletion short |
| `reader` | per process: program point, groups still to predict, the directory in hand, with which models it has predicted |

`ClearModel` and `ClearMetadata` are `rmtree`, in any order; `BeginCopy`, `CopyModel`, `CopiedModel`, `EndCopy`
are `copytree`, which notes a file it cannot copy, goes on and raises at the end; `WriteMetadata`
is `write_model_metadata`, with a moment at which the file exists and is not yet
readable. `ReplaceFails` is any other exception, `Crash` the end of the process.
`Delete`, `RemoveModel`, `Removed`, `DeleteRow` are `delete_single_job`; the deletion of the row may raise, with the files
already gone. `Ask`, `Resolve`, `Load`,
`Respond` are `run_inference_from_dataframe` in another process; `ByMetadata` and `ByRequest` are
the two ways in which a group gets its directory. A column name is a base name and whether it is
padded with blanks; `Accepted` and `Valid` are the validators of training and
inference, which treat blanks differently.

`ChunkCache` – `_TASK_CACHE`, the segments being served and the lock.

| Variable | In the code |
|---|---|
| `cache` | task id to the model path of its entry |
| `idle` | now minus `last_access_at`, counted up to `TTL + 1` ticks |
| `lock` | who holds `_TASK_CACHE_LOCK` across the loading of models |
| `seg` | per caller: program point, task, path, last flag, the entry it predicts with |

`Hit`, `Refuse` and `Miss` are one `_get_or_create_task_entry` up to its return, its
error or the start of loading; each begins with what `_expire_stale_tasks_unlocked`
leaves (`Kept`). `Load` and `LoadError` end the loading, `Predict` is everything from there to the
`finally`, successful or not, and `Release` is `release_task_models`. The route never
awaits, so the service handles one segment at a time; the lock is there for threads,
which the repository's test uses, and the callers of the model are such threads.

`ForecastWindow` – the loop of `run_inference_from_dataframe`, which
`run_chunk_inference` repeats, over lengths and row numbers: a forecast is the number of the
row it is for. The pipeline is external: `predict` is assumed to return forecasts of the
`prediction_length` rows after its window, once for each of its `levels` (quantiles), as the
pinned chronos-forecasting 2.2.2 does and the tests' stand-in with one level does not. The code
checks no shape: `_to_float_list` lays the levels one behind the other (`reshape(-1)`), and the loop
takes the `levels * prediction_length` values for forecasts of as many rows (`Output`).

`JobQueue_proofs`, `FinetuneService_proofs`, `JobLifecycle_proofs`, `TrainingRun_proofs` (with `JobDetail`),
`ChunkCache_proofs`, `ForecastWindow_proofs`, `ModelRelease_proofs`, `SchemaMigration_proofs` – theorems.
`MCFinetuneService`, `MCTrainingRun`, `MCChunkCache`, `MCForecastWindow`, `MCModelRelease`,
`MCSchemaMigration` – instances and symmetry sets for TLC.

Operators whose comment begins with "As if" are deliberate faults. They are
used by no action; substituting one for the definition that follows it must
break a property, which shows that the property depends on that code.

## Runs

Deadlock is checked for `ChunkCache`, whose callers never stop. It is not checked for
the others, which end: once every id has been used and every row deleted, once the
job is over, the response sent, the upgrade done or the job deleted.

| Configuration | Instance | Question |
|---|---|---|
| `FinetuneService_safety` | 2 jobs, 2 requests, 2 groups, page 2, 1 crash; 179,933 states | Do rows, queue, worker and handlers stay consistent through every interleaving and a restart? Does a completed job have all its models? Does what clients see follow `JobLifecycle`? |
| `FinetuneService_liveness` | 2 jobs, 1 request, 1 group, 1 crash, no symmetry; 163,575 states | Does every job end and every request get an answer? |
| `FinetuneService_delete`, `_cancel` | 1 job, 1 request, no crash | counterexamples, below |
| `FinetuneService_batch` | 2 jobs, page 1 | counterexample, below |
| `TrainingRun` | 3 groups of 2 steps, the third a namesake of the first, 1 failing call, 1 restart, a client that polls; 1.8 million states | Do progress, loss points and final status fit together when calls fail and handlers interfere, and in what a client is shown? |
| `TrainingRun_recorded` | 1 group of 2 steps, 1 failing call | counterexample, below |
| `ChunkCache` | 2 tasks, 2 model directories, cache of 1, TTL 1, 2 threads; 34,416 states | Is a segment served by its own models, do entries go exactly when they are due, and does the lock keep check and insertion together? |
| `ForecastWindow` | all histories, contexts and prediction lengths up to 7, 1 to 3 quantile levels; 3,541 states | Does every row get one value, and which values are of their row? |
| `SchemaMigration` | 2 jobs of up to 2 groups, any older schema, 2 crashes or failed copies; 94,150 states | Does start-up end on the new schema, without a loss point destroyed, whatever cuts it short? |
| `ModelRelease` | 1 or 2 groups, with padded and repeated names among the requests, 2 prefixes, 1 reader, 1 crash or failure; 159,034 states | Is what was published whole and usable, and does a reader ever mistake one model for another? |
| `ModelRelease_explicit` | the same without crashes | counterexample, below |

What the properties say:

* `TypeOK` – the shape of the state.
* `SingleHolder` – a job is in the queue at most once, and not both there and with
  the worker or its creator. Two claims would train a job twice in one directory.
* `NoLostJob` – while the process runs, a queued or running row always has somebody
  who will deal with it.
* `AssertExists` – the two assertions of `request_cancel_job`.
* `BatchDeletesAll` – a deletion of everything that skipped no row leaves no row.
  It holds while everything fits in one page.
* `CompletedHasModels` – a completed job has a checkpoint for every group, except
  while a deletion is between its files and its row. It stops at the first crash: one
  exactly there leaves a completed row without models.
* `ServedInOrder` – nothing puts a job ahead of one that waits: a creation goes to the end,
  a deletion takes a job out of the middle without turning the others round, a new worker
  or handler step moves none. Only a restart queues anew, in the order of the rows.
* `Finishes`, `Answered` – every live job ends; every request is answered.
* `ImplementsLifecycle` – every step of the service is a step of `JobLifecycle` or
  invisible to clients. The functions of the store overwrite statuses without looking; that
  they add up to a lifecycle follows from who calls them when. It implies that completed and
  failed jobs do not run again (`TerminalNotRerun`), deleted ones do not come back (`NoResurrection`), and a queued row
  never has the flag (`QueuedNotFlagged`), which makes the branch at `workers/trainer_worker.py:100` dead code; these are proved
  and not checked separately. A *cancelled* job can be set to running once more, when
  the cancellation falls between the worker's read and its write; the flag is set by
  then, and it is cancelled again.
* `PointsReported` – a loss point is stored only if the trainer reported that step of that
  group; of points that outlive a restart, that they are of a step of their group. The step is recovered by subtraction
  from a capped overall step; a wrong base would move points to other steps or
  overwrite them. And a deleted job leaves none and gets none (`NoOrphanPoints`).
* `CompletedHasCurve` – a completed job shows all its steps, and its curves miss at most one of the losses
  its last run reported for each call that failed. `on_step_end` swallows errors: a failed query or refresh
  costs at most the point it was for, and a failed commit, after which the session would
  refuse all the points that follow, makes the completion impossible. Without failing calls
  the curve is whole. A reported loss counts as shown if the curve of its target has a point of that step: groups whose targets
  differ by a blank share one curve, and the later group's points replace the earlier one's.
* `ProgressForward`, `RunEnds`, `EndRecordedUnlessFaulty` – progress never goes back
  before a restart; the worker is done with the job in the end; if no call failed,
  the row says how it ended.
* `FollowsLifecycle` – the training of one job, where calls fail, shows a client steps of the same
  `JobLifecycle` that `FinetuneService` implements, and, only after a failed call, `LastResort`: `failed` for
  a job seen waiting or completed. Nothing else: no job goes from waiting or failed to
  completed, none waits again, none that was deleted comes back.
* `PolledWhole` – a client that is shown `completed` is shown the whole curve, but for one loss for each failed call. It holds because
  the row is read first; the other order would break it.
* `SchemaReady`, `NothingDestroyed` – the service runs on the new schema only; every old loss point is in one
  table or the other at every moment (of a point without a group, its step and loss; the copy drops the
  target). `CurvesKept` – an upgrade that is not cut short shows the curves of finished jobs as before,
  points without a group under the first target; one that is, or that finds points it cannot
  copy, shows all of a job's curves or none (the renamed table is not looked at again, see below).
  `Serves` – start-up gets through in the end.
* `PublishedWhole`, `MetadataLast` – a publication answered with success is whole, whatever
  earlier attempts left, unless a deletion of its job was cut short; metadata appears last. `ServedOncePublished` – then each listed target
  resolves to its own whole model, also under another prefix. `NeverWrongModel` – a reader that goes
  through metadata, directory and model one after another while they are replaced may fail, but never
  predicts with the model of another target. `EverybodyEnds` – whatever fails,
  every publication, deletion and inference ends.
* `OwnModel`, `KeptUntilDue`, `RefusedOnlyWhenBusy`, `LastReleases`, `Served` – a segment is
  predicted with the models it named; an entry goes only by its last segment or
  after the TTL; a segment is refused only for a conflict with a task in use or
  for a cache in use; an answered last segment leaves no entry, failed or
  not; every segment is answered. `LastReleases` and `KeptUntilDue` go by task id, as the code does. `WithinCapacity` – under threads the limit
  holds. (`LoadedOnce`, that models are loaded once under one task id, is proved and not checked separately.)
* `WindowInside`, `Complete`, `Responds` – no window reaches past the data; the response has
  as many values as there are actual ones; if the pipeline returns one level the k-th is of the k-th row,
  and if it returns several, that is so in the first `prediction_length` rows only; the loop ends.

Two jobs are enough for one to be ahead of, behind or equal to the other in queue,
worker and handler; two groups for the loop to have a first and a last one that
differ; one crash for every crash point, and since `Boot` leaves a state like any
other, a second crash starts from states the first already reaches. The second
request never overlaps the first (that is what the event loop gives); it is there
so that a loss of this exclusion would be seen (`AssertExists` breaks at once).
The proofs remove these bounds for the safety properties. In `TrainingRun` three groups
of two steps have a first, a middle and a last group, steps on both sides of each boundary, and two
groups that share a curve with one between them; one failing call may fall anywhere in the run. That the number of
lost points grows with the failed calls and no faster is shown by the proof, for any number of both. In
`ChunkCache` two tasks contend for one place, so that each is refused, expires and is loaded
again. In `SchemaMigration` requests are unreadable, shorter than the groups there are points
of, or longer; the second crash falls into the start-up that repairs the first. In `ModelRelease`
two groups can be taken for each other, and one failure at each
point of a replacement is followed by another publication. In `ForecastWindow` lengths up to 7
include contexts longer and shorter than the prediction, windows that divide the
rest and windows that do not, with levels that fill the response in the first window or not.

**Fairness.** Weak fairness of the worker: a thread that is runnable is scheduled,
and `fit` and `save_pretrained` return or raise. Weak fairness of each handler: the
event loop goes on with it, and the wait of 15 s ends. Weak fairness of `Boot`: a
crashed server is started again. There is none for `Accept`, `Crash` or, by itself,
`WTrainError`. In `TrainingRun` the worker is weakly fair, as above; handlers and
restarts are not, and neither is the client. In `ChunkCache` time passes and each caller goes on (weak fairness);
a segment is answered unless others load models again and again (`Served`): nothing promises a thread
more of a contended lock.
`ForecastWindow` is a loop that runs. In `SchemaMigration` a process that ended is started again and
goes on. In `ModelRelease` the service and each reader go on with what they have begun; nobody
has to begin.

## Where the code and its documentation differ

* `DeleteWaitsForRunning` – `services/job_service.py:526` and
  `src/docs/frontend-api.md:93` say a running job is cancelled and awaited before it
  is deleted. `delete_single_job` looks at the status once; a job the worker starts
  after that is deleted while it runs, without being cancelled.
* `CancelledNotCompleted` – `src/tests/test_cancel_job.py:204` says a cancelled job
  is not written as completed. The worker's last look at the flag and its final
  write are two transactions, and a cancellation in between is lost.
* `BatchDeletesAll` with a page smaller than the table – `src/docs/frontend-api.md:114`
  says `all=true` deletes everything. It deletes the first 100 rows and reports
  nothing skipped.
* `EndRecorded` – `src/docs/backend-architecture.md:37` says a job is completed, failed or
  cancelled when its training ends. `callbacks/progress_callback.py:119` swallows a
  failed commit and goes on with a session that now refuses everything. The summary of
  the group, and then `fail_job_training` itself, raise; the worker is left with a row
  that says running and that nobody trains. Only a restart, which requeues it, helps. A
  failed final write has the same effect.

* `ModelDirPreferred` – `src/docs/推理接口改造todo.md:568` ticks off that a `model_dir` in the metadata is
  preferred. That is so when the groups come from the metadata; a request that names its groups
  (`services/inference_service.py:122-126`) is resolved through `finetuned-ckpt_<target>` only, and gets a
  404 for models trained under another `FINETUNED_CKPT_NAME`.

Noticed while reading, without a run of their own:

* A job deleted while the worker holds it gets its artifact directory back
  (`services/trainer_service.py:92`), which no row refers to; `services/job_service.py:481` says the local
  artifacts are deleted.
* A crash or an error in the middle of a deletion leaves a completed row whose remaining models can be
  published with success (`PublishedWhole` stops there, and `CompletedHasModels` at the first crash).
* With a pipeline that returns more than one quantile level, `_to_float_list` (`services/inference_service.py:62-70`)
  flattens the levels into one list: the values of a response after the first `prediction_length` are other
  levels of earlier rows. `src/requirements.txt:23` pins a release of chronos-forecasting that returns such an axis.
* `selected_groups` may hold `a` and `a ` (`schemas/request.py:178`), whose loss points are one curve,
  the later over the earlier (`db/crud.py:371-380`).
* A refresh that fails after the commit of `completed` turns the job into a failed one; a failed read at
  `workers/trainer_worker.py:89` writes `failed` for a job that still waits (`LastResort`).
* A loss point whose query fails is lost and the job completes without it: only the log tells.
* Loss points of an older table with targets but without groups lose their targets in the upgrade
  (`db/init_db.py:91-107`); two targets with the same step make the copy fail, and all points stay in
  `finetune_job_losses_old`.
* The last segment of a chunk task releases the entry of its task id, also one that another client has loaded since for
  another directory, after its own expired while it was predicting.
* A crash or failed copy right after the table of loss points was renamed strands the old points in
  `finetune_job_losses_old`, which no start-up looks at again; the next start-up may fail once,
  because the index name is taken. The second half of `_ensure_finetune_job_losses_table`
  (`db/init_db.py:117-140`) never runs, since `create_all` has made the table before.
* A job that was running when the service was upgraded and is trained again gets its new points under the
  target and keeps the old ones under `group_n`; both are shown as one curve.
* Column names padded with blanks pass `SelectedGroup` but are stripped in the metadata and by inference: such a
  target is published and then not found, or answered by the model of its stripped namesake.
* `selected_groups` may be omitted (`schemas/request.py:103`), but `train_chronos2` takes its length: the job fails.
* `GET .../jobs?status=` refuses `failed` and `cancelled`, which `src/docs/frontend-api.md:60` lists.
* `loss_data.steps` counts points from 1; `src/docs/接口文档规范说明.md:145` describes training steps.

Not a divergence, but worth knowing: the cache looks at the TTL only when a segment
arrives, so the models of an abandoned task stay in memory while the service is quiet.

## Proofs

`FinetuneService_proofs` proves, for all `Jobs` (a finite set without `NoJob`),
`Requests` (any set), `NumGroups` and `BatchLimit` (at least 1) and `MaxCrashes`:

| Theorem | Property |
|---|---|
| `TypeCorrect` | `TypeOK` |
| `SingleHolderHolds` | `SingleHolder` |
| `NoJobIsLost` | `NoLostJob` |
| `AssertionsHold` | `AssertExists` |
| `QueuedIsNotFlagged` | `QueuedNotFlagged` |
| `FinishedNotRerun` | `TerminalNotRerun` |
| `DeletedStaysDeleted` | `NoResurrection` |
| `CompletedJobsHaveModels` | `CompletedHasModels` |
| `BatchesDeleteAll` | `BatchDeletesAll`, if `Cardinality(Jobs) <= BatchLimit` |
| `ServedInOrderHolds` | `ServedInOrder` |
| `EndedForGood` | a job that is completed or failed is from then on never queued, running or in the worker's hands |
| `HandlersAdvanceHolds`, `WorkerAdvancesHolds` | the safety halves of `Answered` and `Finishes`, below |

The argument has two layers. `Typed` is `TypeOK` with what types alone need to be
inductive: an active handler or worker has a job, and a worker that fits or saves
has a group in range. `IInv` conjoins the properties with what makes them
inductive:

* `OneHandler` – at most one request is active: `Accept` waits for `LoopFree`.
* `DownIsEmpty` – a dead process has no queue, worker or request.
* `OnlyBorn` – rows, queue entries and claims are of ids already inserted, and the
  handler between its directory and its row has a new id.
* `ClaimsUnfinished` – what waits or is held by worker or creator is not completed
  or failed; hence finishing a job is the last thing that happens to it.
* `FlagsLeftQueue` – a handler about to set the flag has a job that is not queued,
  and no job ever becomes queued again.

Every action falls into one of a few kinds (a handler that only moves on, one that
rewrites a row, a worker that goes on, a worker that lets its job go), each with a
lemma; the remaining ones (`InsertRow`, `EnqueueJob`, `DequeueDeleted`, `DeleteRow`,
`WDequeue`, `Crash`, `Boot`) are done one by one. `JobQueue_proofs` has the facts
about sequences that this needs: what `Enqueue`, `Drop`, `Remove` and concatenation do
to membership and uniqueness, and to the order of two jobs (`EnqueueOrder`, `DropOrder`,
`RemoveOrder`, `OldestFirst`). Order in the queue needs no invariant but uniqueness.
`EndedForGood` speaks of all later states, not of a step. Its `LetGo` (the row is neither queued nor
running, and neither queue, worker nor creator has the job) is kept by every step that starts in
`IInv`, from the first moment on at which the job has ended: a creation never reuses its id, and a
restart requeues only rows that are queued or running.

Two properties have an invariant of their own on top of `IInv`. `ModelsKept`: what the
worker has written so far of its job (`TrainedSoFar`: all groups before the one it is at)
is there, as are the models of every completed job, unless a deletion is at its row
(`FilesGone`). It is inductive as long as nothing crashes, since a deletion leaves the
point between its files and its row only by deleting the row. `DeletingAll`: every row
there is, is ahead of the deletion of everything or in its hand, unless it has skipped
one. No row appears meanwhile because the loop is not free, and the first page holds
every row because an injection between finite sets of one size is onto (`WholePage`);
run `batch` shows that the bound on the number of rows is needed.

`JobLifecycle_proofs` proves the refinement for the same constants: `LifecycleImplemented`
(`Spec => ImplementsLifecycle`). Initial states map to initial states; under `IInv` each action
either leaves rows as they are or changes one row the way one abstract action does. `IInv` is needed: that
`MarkJobCompleted` never meets a cancelled row that was not asked to stop, or that a
creation never meets an existing row, is not visible in the step itself.

`TrainingRun_proofs`, for any number of groups, steps, faults and restarts and any
`Faulty`: `RunTypeCorrect` (`TypeOK`), `NoOrphanPointsHolds`,
`CompletedHasCurveHolds`, `PointsReportedHolds`, `EndRecordedHolds`, `ProgressForwardHolds`, and
`PolledWholeHolds` and `FollowsLifecycleHolds` of `JobDetail`. The invariant adds `Placed` (where the worker can be relative to
groups and steps: only while it steps, writes or saves is it in a group, and it saves
and decides after the last step) and `CurveKept` (as long as the session is usable, no more reported
losses are without a point than calls have failed, and the progress has been written up to the last summary). The second is the
point: a loss goes missing only with a failed call of its own, or because the session refuses everything, and then
the job cannot be completed. That a later group never takes a point of a namesake's curve away without putting one in its place
is a lemma about `Upsert`. The arithmetic of steps within groups is a set of lemmas of its own.
`ReadHolds` is why a cancelling handler may write without another look: what it read is still there and
does not wait again.
`FollowsLifecycle` has an invariant of its own, `RowInv`: who is about to write an end has
marked the row running, which a handler may have cancelled or a deletion removed since, unless a call has failed.
Each step then changes the row in one of six ways or not at all (`NextRow`); five of them are actions of
the lifecycle and the sixth is `LastResort` (`LifecycleStep`).

`ChunkCache_proofs`, for any finite set of tasks, any paths, callers, TTL and limit, with or
without threads: `ChunkTypeCorrect`, `CapacityHolds`, `OwnModelHolds`, `LoadsOnce`,
`KeptUntilDueHolds`, `RefusedOnlyWhenBusyHolds`, `LastReleasesHolds`, `SegmentsAdvanceHolds`. `RoomToLoad` makes the capacity inductive:
whoever loads has the lock, its task is still absent and the room it found is still
there, since whoever adds an entry needs the lock and everybody else only removes.

`ForecastWindow_proofs`, for all lengths: `WindowTypeCorrect`, `WindowInsideHolds`,
`CompleteHolds`, `LoopAdvancesHolds`, for any numbers of levels. The invariant says that the k-th value is of the k-th row (`Aligned`),
as far as `Complete` does, and that with one level, while rows are missing, the forecasts so far are exactly those of the windows so
far: their number equals the start of the window. Only the last window may be cut.

`ModelRelease_proofs`, for any requests, prefixes, readers and number of failures:
`ReleaseTypeCorrect`, `PublishedWholeHolds`, `NeverWrongModelHolds`, `ServedOncePublishedHolds`, `MetadataLastHolds`,
`ReadersAdvanceHolds`, `PublicationAdvances`. `Stages`
is the heart: while the copy runs, what has arrived equals its source unless a failure
was noted, and once metadata is being written the whole release equals the source; `SourceKept`
says the source of a completed job stays whole until its deletion begins. A reader carries
`OwnDirectory`: the directory in its hand bears the target of its group, whatever has
become of the files since. That targets do not repeat (`Accepted`) is what makes a directory determine its group.

`SchemaMigration_proofs`, for any jobs, requests, steps and number of crashes: `MigrationTypeCorrect`, `SchemaReadyHolds`,
`NothingDestroyedHolds`, `CurvesKeptHolds`, `StartAdvancesHolds`. The invariant knows for each layout and point
of start-up where the old points are (`Whereabouts`), and that the points of a job that
was not running are those copied or none, the latter only after a fault or a clash (`CopiedOrNot`).

**Termination measures.** What the provers cannot do is liveness: fairness is about `ENABLED`. What they can
is the half of each liveness property that is safety: a number that every step of the process in
question makes smaller and no other process makes greater. With it, fairness has only to
say that the process goes on, and that part is left to TLC.

| Theorem | Liveness property | At most so many steps |
|---|---|---|
| `HandlersAdvanceHolds` | `Answered` | of a handler: six for the row in its hand and for each row of a batch still ahead |
| `WorkerAdvancesHolds` | `Finishes` | of the worker with a job: 2 * `NumGroups` + 5 |
| `RunAdvancesHolds` | `RunEnds` | of the worker, between restarts: `NumGroups` * (4 * `NumSteps` + 2) + 6, whatever fails |
| `LoopAdvancesHolds` | `Responds` | of the loop: one window for each row to forecast, and two |
| `StartAdvancesHolds` | `Serves` | of start-up: 18, and 19 for each fault |
| `SegmentsAdvanceHolds` | `Served` | of a caller: four; it waits for nothing but a load by another, who waits for nobody (`NobodyStuck`) |
| `ReadersAdvanceHolds` | `EverybodyEnds` | of a reader: two for each group, and one |
| `PublicationAdvances` | `EverybodyEnds` | of a publication or deletion: each goes on a stage or takes one file of a target one step on, in one direction |

The last one has no single number: a sum over the files would need induction over a set. That
other models have nothing left in the stage is part of the theorem, so the files are those of finitely many targets.

Assumptions of all proofs are the named `ASSUME`s of the modules only: finite sets of jobs and
tasks, positive bounds, constants for "nothing" outside the sets they complete.

Only model-checked: `Finishes`, `Answered`, `RunEnds`, `Served`, `Responds`, `Serves` and
`EverybodyEnds`, that is, that a process with steps left can take one: liveness under fairness is
beyond the prover. Every other property of the passing runs is a theorem.

## Not modelled

* Lists of jobs and logs only read, one query each.
* Data loading is a failure of training or of an inference, which both models have; what it
  does with rows and columns is pandas.
* Configuration, authentication and tools have no state. Of the schemas only the checks are modelled on which a release depends;
  the others refuse a request, which changes nothing.
* Arguments, messages and output files of the offline clients are pure input and output.
* `TrainerWorker.stop` and `remove_many` are called by nothing in `src/app`: the service
  ends by ending the process, which is `Crash`.
* Scripts and demos are not part of the service.
* Numbers: losses, durations, predictions and the layout of responses.

## Plan

What is left: `ModelRelease` with a task of `ChunkCache` that keeps the models of an
earlier release loaded while it is replaced.
