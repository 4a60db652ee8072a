-------------------------- MODULE FinetuneService --------------------------
(***************************************************************************)
(* The fine-tuning service as it runs: the FastAPI event loop executing    *)
(* the handlers that create, cancel and delete jobs, the single training   *)
(* worker thread, the in-memory queue between them, and what survives a    *)
(* process crash: the rows of finetune_jobs and the artifact directories.  *)
(*                                                                         *)
(* Every handler is an `async def` whose body never awaits, so the event   *)
(* loop runs one handler from its first to its last statement before it    *)
(* starts another (LoopFree).  The worker is a thread: its steps fall      *)
(* between any two database commits or file operations of a handler.       *)
(***************************************************************************)
EXTENDS Naturals, Sequences, FiniteSets, Functions, JobQueue, JobStore

CONSTANTS
    Jobs,         \* the uuids that create_finetune_job can draw
    Requests,     \* the HTTP requests that can be open at the same time
    NumGroups,    \* len(selected_groups): models trained one after another
    BatchLimit,   \* limit of list_jobs, 100 in the code
    MaxCrashes,   \* bound: process crashes in one behaviour
    NoJob         \* the absence of a job id

ASSUME JobsAssumption == IsFiniteSet(Jobs) /\ NoJob \notin Jobs
ASSUME GroupsAssumption == NumGroups \in Nat \ {0}
ASSUME BatchLimitAssumption == BatchLimit \in Nat \ {0}
ASSUME MaxCrashesAssumption == MaxCrashes \in Nat

VARIABLES
    db,           \* table finetune_jobs: job id -> row
    born,         \* column created_at; 0 for an id that never had a row
    clock,        \* the number of rows inserted so far
    outputDir,    \* does the artifact directory of the job exist
    models,       \* the groups whose checkpoint is saved in it
    queue,        \* JobQueue, lost when the process ends
    worker,       \* the training thread: program point, job id, group
    req,          \* the handler of each open request
    up,           \* is the process running
    crashes       \* crashes so far

vars == <<db, born, clock, outputDir, models, queue, worker, req, up, crashes>>

Groups == 1..NumGroups

TrainingPCs == {"preparing", "fitting", "saving", "deciding"}
WorkerPCs == TrainingPCs \cup
    {"idle", "loading", "starting", "completing", "cancelling", "failing"}

RequestPCs == {"idle", "insert", "enqueue", "markCancelled", "setFlag",
               "cancelFirst", "await", "dequeue", "removeFiles", "deleteRow", "next"}

(* How a deletion was asked for: one id, a status, or everything. *)
Scopes == {"one", "status", "all"}

WorkerStates == [pc : WorkerPCs, job : Jobs \cup {NoJob}, group : 0..NumGroups]

RequestStates == [pc : RequestPCs, job : Jobs \cup {NoJob}, todo : Seq(Jobs),
                  scope : Scopes, skipped : BOOLEAN]

IdleWorker == [pc |-> "idle", job |-> NoJob, group |-> 0]

IdleRequest ==
    [pc |-> "idle", job |-> NoJob, todo |-> << >>, scope |-> "one", skipped |-> FALSE]

Live(j) == db[j].status \in {"queued", "running"}

(* As if the handlers were plain functions, run by the thread pool. *)
LoopShared == TRUE

LoopFree == \A r \in Requests : req[r].pc = "idle"

Init ==
    /\ db = [j \in Jobs |-> NoRow]
    /\ born = [j \in Jobs |-> 0]
    /\ clock = 0
    /\ outputDir = [j \in Jobs |-> FALSE]
    /\ models = [j \in Jobs |-> {}]
    /\ queue = EmptyQueue
    /\ worker = IdleWorker
    /\ req = [r \in Requests |-> IdleRequest]
    /\ up = TRUE
    /\ crashes = 0

(***************************************************************************)
(* Handlers.                                                               *)
(***************************************************************************)
At(r, pc) == up /\ req[r].pc = pc
Goto(r, pc) == req' = [req EXCEPT ![r].pc = pc]
Answer(r) == req' = [req EXCEPT ![r] = IdleRequest]

storage == <<born, clock, outputDir, models>>
process == <<worker, up, crashes>>

(* POST /jobs: the artifact directory is made first, *)
Create(r) ==
    /\ up /\ LoopFree
    /\ \E j \in Jobs :
         /\ born[j] = 0 /\ ~outputDir[j]
         /\ outputDir' = [outputDir EXCEPT ![j] = TRUE]
         /\ req' = [req EXCEPT ![r] = [IdleRequest EXCEPT !.pc = "insert", !.job = j]]
    /\ UNCHANGED <<db, born, clock, models, queue, process>>

(* the row is committed next, *)
InsertRow(r) ==
    /\ At(r, "insert")
    /\ db' = CreateJob(db, req[r].job)
    /\ clock' = clock + 1
    /\ born' = [born EXCEPT ![req[r].job] = clock + 1]
    /\ Goto(r, "enqueue")
    /\ UNCHANGED <<outputDir, models, queue, process>>

(* and the id is queued last. *)
EnqueueJob(r) ==
    /\ At(r, "enqueue")
    /\ queue' = Enqueue(queue, req[r].job)
    /\ Answer(r)
    /\ UNCHANGED <<db, storage, process>>

(* A waiting job is cancelled at once, a running one asked to stop. *)
CancelStep(j) == IF db[j].status = "queued" THEN "markCancelled" ELSE "setFlag"

(* POST /jobs/{id}/cancel reads the row; 404 and 409 change nothing. *)
Cancel(r, j) ==
    /\ up /\ LoopFree
    /\ Live(j)
    /\ req' = [req EXCEPT ![r] = [IdleRequest EXCEPT !.pc = CancelStep(j), !.job = j]]
    /\ UNCHANGED <<db, storage, queue, process>>

(* What it read may be out of date by the time it writes. *)
CancelQueued(r) ==
    /\ At(r, "markCancelled")
    /\ db' = MarkJobCancelled(db, req[r].job)
    /\ Answer(r)
    /\ UNCHANGED <<storage, queue, process>>

CancelRunning(r) ==
    /\ At(r, "setFlag")
    /\ db' = SetCancelRequested(db, req[r].job)
    /\ Answer(r)
    /\ UNCHANGED <<storage, queue, process>>

(* The rows S in ascending created_at order. *)
ByCreation(S) ==
    {s \in Bijection(1..Cardinality(S), S) :
        \A i, k \in DOMAIN s : i < k => born[s[i]] < born[s[k]]}

(* list_jobs has no ORDER BY: any BatchLimit of the rows, in any order. *)
FirstPage(S) ==
    LET n == IF Cardinality(S) < BatchLimit THEN Cardinality(S) ELSE BatchLimit
    IN  Injection(1..n, S)

(* As if the loop kept the row it turns to at the head of the list. *)
VisitAgain(r, todo, scope, skipped) ==
    req' = [req EXCEPT ![r] =
        [pc |-> IF db[todo[1]].status = "running" THEN "cancelFirst" ELSE "dequeue",
         job |-> todo[1], todo |-> todo, scope |-> scope, skipped |-> skipped]]

(* The handler turns to the first of the rows in todo and reads its status. *)
Visit(r, todo, scope, skipped) ==
    req' = [req EXCEPT ![r] =
        [pc |-> IF db[todo[1]].status = "running" THEN "cancelFirst" ELSE "dequeue",
         job |-> todo[1], todo |-> Drop(todo, 1), scope |-> scope, skipped |-> skipped]]

(* DELETE /jobs/{id}; 404 changes nothing. *)
Delete(r, j) ==
    /\ up /\ LoopFree
    /\ Exists(db, j)
    /\ Visit(r, <<j>>, "one", FALSE)
    /\ UNCHANGED <<db, storage, queue, process>>

(* DELETE /jobs?status=s and DELETE /jobs?all=true, with something to do. *)
BatchDelete(r) ==
    /\ up /\ LoopFree
    /\ \/ \E s \in Statuses : \E todo \in ByCreation(WithStatus(db, s)) :
            todo # << >> /\ Visit(r, todo, "status", FALSE)
       \/ \E todo \in FirstPage({j \in Jobs : Exists(db, j)}) :
            todo # << >> /\ Visit(r, todo, "all", FALSE)
    /\ UNCHANGED <<db, storage, queue, process>>

(* _cancel_running_and_wait: ask for cancellation, *)
CancelFirst(r) ==
    /\ At(r, "cancelFirst")
    /\ db' = SetCancelRequested(db, req[r].job)
    /\ Goto(r, "await")
    /\ UNCHANGED <<storage, queue, process>>

(* poll until the row is no longer running, *)
AwaitStopped(r) ==
    /\ At(r, "await")
    /\ db[req[r].job].status # "running"
    /\ Goto(r, IF Exists(db, req[r].job) THEN "dequeue" ELSE "next")
    /\ UNCHANGED <<db, storage, queue, process>>

(* As if a batch passed over a row that did not stop without saying so. *)
AwaitTimeoutUncounted(r) ==
    /\ At(r, "await")
    /\ db[req[r].job].status = "running"
    /\ Goto(r, "next")
    /\ UNCHANGED <<db, storage, queue, process>>

(* or give up after 15 seconds: 409, or the next row of a batch. *)
AwaitTimeout(r) ==
    /\ At(r, "await")
    /\ db[req[r].job].status = "running"
    /\ req' = [req EXCEPT ![r].pc = "next", ![r].skipped = TRUE]
    /\ UNCHANGED <<db, storage, queue, process>>

DequeueDeleted(r) ==
    /\ At(r, "dequeue")
    /\ queue' = Remove(queue, req[r].job)
    /\ Goto(r, "removeFiles")
    /\ UNCHANGED <<db, storage, process>>

RemoveFiles(r) ==
    /\ At(r, "removeFiles")
    /\ outputDir' = [outputDir EXCEPT ![req[r].job] = FALSE]
    /\ models' = [models EXCEPT ![req[r].job] = {}]
    /\ Goto(r, "deleteRow")
    /\ UNCHANGED <<db, born, clock, queue, process>>

DeleteRow(r) ==
    /\ At(r, "deleteRow")
    /\ db' = DeleteJobById(db, req[r].job)
    /\ Goto(r, "next")
    /\ UNCHANGED <<storage, queue, process>>

NextCandidate(r) ==
    /\ At(r, "next")
    /\ IF req[r].todo = << >>
       THEN Answer(r)
       ELSE Visit(r, req[r].todo, req[r].scope, req[r].skipped)
    /\ UNCHANGED <<db, storage, queue, process>>

Handler(r) ==
    \/ InsertRow(r) \/ EnqueueJob(r)
    \/ CancelQueued(r) \/ CancelRunning(r)
    \/ CancelFirst(r) \/ AwaitStopped(r) \/ AwaitTimeout(r)
    \/ DequeueDeleted(r) \/ RemoveFiles(r) \/ DeleteRow(r) \/ NextCandidate(r)

Accept(r) ==
    \/ Create(r) \/ BatchDelete(r)
    \/ \E j \in Jobs : Cancel(r, j) \/ Delete(r, j)

(***************************************************************************)
(* The worker thread: _run, _process_job and train_chronos2.               *)
(***************************************************************************)
WAt(pc) == up /\ worker.pc = pc
WGoto(pc) == worker' = [worker EXCEPT !.pc = pc]

service == <<born, clock, req, up, crashes>>
files == <<outputDir, models>>

WDequeue ==
    /\ WAt("idle")
    /\ queue # EmptyQueue
    /\ worker' = [pc |-> "loading", job |-> Oldest(queue), group |-> 0]
    /\ queue' = Dequeue(queue)
    /\ UNCHANGED <<db, files, service>>

(* An id without a row and a cancelled job are dropped; a job whose       *)
(* cancellation was requested before it got here is not trained.          *)
WLoad ==
    /\ WAt("loading")
    /\ LET row == db[worker.job] IN
         \/ /\ ~Exists(db, worker.job) \/ row.status = "cancelled"
            /\ worker' = IdleWorker
         \/ /\ row.cancel /\ row.status \in {"queued", "running"}
            /\ WGoto("cancelling")
         \/ /\ Exists(db, worker.job) /\ row.status # "cancelled"
            /\ ~(row.cancel /\ row.status \in {"queued", "running"})
            /\ WGoto("starting")
    /\ UNCHANGED <<db, files, queue, service>>

(* If the row was deleted meanwhile, the update finds nothing and training *)
(* goes on, unless the deletion fell inside the update and it raised.      *)
WStart ==
    /\ WAt("starting")
    /\ db' = UpdateJobStatus(db, worker.job, "running")
    /\ \/ WGoto("preparing")
       \/ ~Exists(db, worker.job) /\ WGoto("failing")
    /\ UNCHANGED <<files, queue, service>>

CancelSeen == Exists(db, worker.job) /\ db[worker.job].cancel

WPrepare ==
    /\ WAt("preparing")
    /\ outputDir' = [outputDir EXCEPT ![worker.job] = TRUE]
    /\ IF CancelSeen
       THEN WGoto("cancelling")
       ELSE worker' = [worker EXCEPT !.pc = "fitting", !.group = 1]
    /\ UNCHANGED <<db, models, queue, service>>

(* The last look at the flag in the fit of one group. *)
WFit ==
    /\ WAt("fitting")
    /\ WGoto(IF CancelSeen THEN "cancelling" ELSE "saving")
    /\ UNCHANGED <<db, files, queue, service>>

(* As if the loop over the groups had an end off by one, on either side. *)
MoreGroupsThanLast == worker.group <= NumGroups
MoreGroupsButLast == worker.group + 1 < NumGroups

MoreGroups == worker.group < NumGroups

WSave ==
    /\ WAt("saving")
    /\ outputDir' = [outputDir EXCEPT ![worker.job] = TRUE]
    /\ models' = [models EXCEPT ![worker.job] = @ \cup {worker.group}]
    /\ IF MoreGroups
       THEN worker' = [worker EXCEPT !.pc = "fitting", !.group = @ + 1]
       ELSE WGoto("deciding")
    /\ UNCHANGED <<db, queue, service>>

(* Bad data, a failed model load, fit or save. *)
WTrainError ==
    /\ up /\ worker.pc \in {"preparing", "fitting", "saving"}
    /\ WGoto("failing")
    /\ UNCHANGED <<db, files, queue, service>>

(* The last look at the flag before the job is marked completed. *)
WDecide ==
    /\ WAt("deciding")
    /\ WGoto(IF CancelSeen THEN "cancelling" ELSE "completing")
    /\ UNCHANGED <<db, files, queue, service>>

WComplete ==
    /\ WAt("completing")
    /\ db' = MarkJobCompleted(db, worker.job)
    /\ worker' = IdleWorker
    /\ UNCHANGED <<files, queue, service>>

WCancel ==
    /\ WAt("cancelling")
    /\ db' = MarkJobCancelled(db, worker.job)
    /\ worker' = IdleWorker
    /\ UNCHANGED <<files, queue, service>>

WFail ==
    /\ WAt("failing")
    /\ db' = MarkJobFailed(db, worker.job)
    /\ worker' = IdleWorker
    /\ UNCHANGED <<files, queue, service>>

Worker ==
    \/ WDequeue \/ WLoad \/ WStart \/ WPrepare \/ WFit \/ WSave
    \/ WTrainError \/ WDecide \/ WComplete \/ WCancel \/ WFail

(***************************************************************************)
(* The process ends anywhere (the worker is a daemon thread, and shutdown  *)
(* does not stop it); the next start-up queues again every queued and then *)
(* every running job, before it serves a request or starts the worker.     *)
(***************************************************************************)
Crash ==
    /\ up /\ crashes < MaxCrashes
    /\ crashes' = crashes + 1
    /\ up' = FALSE
    /\ queue' = EmptyQueue
    /\ worker' = IdleWorker
    /\ req' = [r \in Requests |-> IdleRequest]
    /\ UNCHANGED <<db, storage>>

(* As if only the queued jobs were found again. *)
BootQueuedOnly ==
    /\ ~up
    /\ up' = TRUE
    /\ queue' \in ByCreation(WithStatus(db, "queued"))
    /\ UNCHANGED <<db, storage, worker, req, crashes>>

Boot ==
    /\ ~up
    /\ up' = TRUE
    /\ \E waiting \in ByCreation(WithStatus(db, "queued")),
          interrupted \in ByCreation(WithStatus(db, "running")) :
            queue' = waiting \o interrupted
    /\ UNCHANGED <<db, storage, worker, req, crashes>>

Next ==
    \/ \E r \in Requests : Accept(r) \/ Handler(r)
    \/ Worker
    \/ Crash \/ Boot

(* The thread and the event loop are scheduled, and a crashed process is   *)
(* started again.  Nothing obliges a client to send a request.             *)
Fairness ==
    /\ WF_vars(Worker)
    /\ \A r \in Requests : WF_vars(Handler(r))
    /\ WF_vars(Boot)

Spec == Init /\ [][Next]_vars /\ Fairness
-----------------------------------------------------------------------------
(***************************************************************************)
(* Properties.                                                             *)
(***************************************************************************)

(* The state has the shape the code gives it. *)
TypeOK ==
    /\ db \in [Jobs -> Rows]
    /\ born \in [Jobs -> Nat] /\ clock \in Nat
    /\ outputDir \in [Jobs -> BOOLEAN]
    /\ models \in [Jobs -> SUBSET Groups]
    /\ queue \in Seq(Jobs)
    /\ worker \in WorkerStates
    /\ req \in [Requests -> RequestStates]
    /\ up \in BOOLEAN
    /\ crashes \in 0..MaxCrashes

(* A job has at most one claim to being trained: one place in the queue,   *)
(* or the worker, or the creating handler that is about to queue it.  Two  *)
(* would train it twice into the same directory (queue_service, main).     *)
SingleHolder ==
    /\ Distinct(queue)
    /\ worker.job # NoJob => ~Holds(queue, worker.job)
    /\ \A r \in Requests : req[r].pc = "enqueue" =>
          ~Holds(queue, req[r].job) /\ worker.job # req[r].job

(* While the process runs, no queued or running row is stranded: it waits  *)
(* in the queue, the worker has it, its creator is about to queue it, or a *)
(* deletion has taken it out of the queue and is about to delete the row.  *)
(* After a crash between two commits, requeue_pending_jobs restores this.  *)
NoLostJob ==
    up => \A j \in Jobs : Live(j) =>
        \/ Holds(queue, j)
        \/ worker.job = j
        \/ \E r \in Requests : req[r].job = j
             /\ req[r].pc \in {"enqueue", "removeFiles", "deleteRow"}

(* The assertions of request_cancel_job ("job_id exists for certain here") *)
(* hold: the row read at its start still exists when it is written.        *)
AssertExists ==
    \A r \in Requests :
        req[r].pc \in {"markCancelled", "setFlag"} => Exists(db, req[r].job)

(* No queued row has cancel_requested set, across crashes and races: the   *)
(* branch of _process_job for such a row never runs.                       *)
QueuedNotFlagged ==
    \A j \in Jobs : db[j].status = "queued" => ~db[j].cancel

(* A completed job has the checkpoint of every group, except while a       *)
(* deletion is between removing its files and deleting its row.  As long   *)
(* as nothing crashed: a crash there leaves a completed row without models. *)
CompletedHasModels ==
    crashes = 0 => \A j \in Jobs : db[j].status = "completed" =>
        \/ models[j] = Groups /\ outputDir[j]
        \/ \E r \in Requests : req[r].pc = "deleteRow" /\ req[r].job = j

(* A completed or failed job is never run again: neither a restart, nor a  *)
(* late cancellation, nor a second claim makes it running (main.py,        *)
(* _process_job, which does not look for these two statuses itself).       *)
TerminalNotRerun ==
    [][\A j \in Jobs : db[j].status \in {"completed", "failed"} =>
          db'[j].status # "running"]_vars

(* No step brings a deleted job back, although the worker may still be     *)
(* training it and then updates its status.                                *)
NoResurrection ==
    [][\A j \in Jobs : born[j] # 0 /\ ~Exists(db, j) => ~Exists(db', j)]_vars

(* A DELETE with all=true that reports no skipped job leaves no row        *)
(* (frontend-api.md: all=true deletes everything).                         *)
BatchDeletesAll ==
    [][\A r \in Requests :
          req[r].pc = "next" /\ req[r].scope = "all" /\ ~req[r].skipped
            /\ req'[r].pc = "idle" /\ up'
          => \A j \in Jobs : ~Exists(db', j)]_vars

(* Who is ahead of i while it waits: the job in the worker's hands, or one *)
(* nearer to the head of the queue.                                        *)
Before(j, i) == worker.job = j \/ Ahead(queue, j, i)

(* Jobs are trained in the order in which they were queued: whoever is     *)
(* ahead of a waiting job was ahead of it before, whatever is added to the *)
(* queue or taken out of its middle.  Only a restart arranges them anew.   *)
ServedInOrder ==
    [][up /\ up' => \A i, j \in Jobs :
          Holds(queue, i) /\ Holds(queue', i) /\ Before(j, i)' => Before(j, i)]_vars

(* Every job that is queued or running is eventually completed, failed,    *)
(* cancelled or deleted, whatever crashes and requests intervene.          *)
Finishes == \A j \in Jobs : Live(j) ~> ~Live(j)

(* The event loop is not held for ever by one request: the wait of a       *)
(* deletion for the worker ends.                                           *)
Answered == \A r \in Requests : req[r].pc # "idle" ~> req[r].pc = "idle"

(***************************************************************************)
(* The abstract specification.                                             *)
(***************************************************************************)

(* map_status; an id nobody was given yet, and one whose row is deleted. *)
Shown(j) ==
    IF Exists(db, j)
    THEN IF db[j].status = "queued" THEN "pending" ELSE db[j].status
    ELSE IF born[j] = 0 THEN "none" ELSE "gone"

Lifecycle ==
    INSTANCE JobLifecycle WITH
        shown <- [j \in Jobs |-> Shown(j)],
        asked <- [j \in Jobs |-> db[j].cancel]

(* What clients are shown follows the promised lifecycle through every     *)
(* race and crash: in particular the worker overwrites no end, a waiting   *)
(* job does not end without having run, and no job runs after its          *)
(* cancellation that does not know of it (crud.py updates rows without     *)
(* looking at them).                                                       *)
ImplementsLifecycle == Lifecycle!Spec

(***************************************************************************)
(* What the documentation and the tests say and the code does not keep.    *)
(***************************************************************************)

(* delete_single_job: a running job is cancelled first and deleted once it *)
(* has stopped; so no running row is ever deleted.                         *)
DeleteWaitsForRunning ==
    [][\A j \in Jobs : db[j].status = "running" => Exists(db', j)]_vars

(* test_cancel_job.py: a job whose cancellation was requested while it     *)
(* ran is not written as completed.                                        *)
CancelledNotCompleted ==
    [][\A j \in Jobs : db[j].status = "running" /\ db[j].cancel =>
          db'[j].status # "completed"]_vars
=============================================================================
