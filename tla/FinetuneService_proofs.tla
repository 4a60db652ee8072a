------------------------ MODULE FinetuneService_proofs ------------------------
(***************************************************************************)
(* Safety of FinetuneService for every set of jobs and requests, every     *)
(* number of groups, page size and number of crashes.                      *)
(***************************************************************************)
EXTENDS FinetuneService, JobQueue_proofs, FiniteSetTheorems

-----------------------------------------------------------------------------
(* What the operations of JobStore write, row by row. *)

(* An update rewrites its row if there is one, and touches no other. *)
LEMMA UpdateFacts ==
    ASSUME NEW d \in [Jobs -> Rows], NEW j \in Jobs, NEW row \in Rows \ {NoRow}
    PROVE  /\ Update(d, j, row) \in [Jobs -> Rows]
           /\ \A k \in Jobs : k # j => Update(d, j, row)[k] = d[k]
           /\ Exists(d, j) => Update(d, j, row)[j] = row
           /\ ~Exists(d, j) => Update(d, j, row)[j] = d[j]
           /\ \A k \in Jobs : Exists(Update(d, j, row), k) <=> Exists(d, k)
<1>1. row.status \in Statuses
  BY DEF Rows
<1>2. CASE Exists(d, j)
  BY <1>1, <1>2 DEF Update, Exists
<1>3. CASE ~Exists(d, j)
  BY <1>3 DEF Update
<1> QED BY <1>2, <1>3

(* The columns of a row that exists. *)
LEMMA RowType ==
    ASSUME NEW row \in Rows, row.status \in Statuses
    PROVE  row.cancel \in BOOLEAN
BY DEF Rows, NoRow, Statuses

(* Any columns written to a row make a row. *)
LEMMA WrittenType ==
    ASSUME NEW s \in Statuses, NEW c \in BOOLEAN
    PROVE  [status |-> s, cancel |-> c] \in Rows \ {NoRow}
BY DEF Rows, NoRow, Statuses

(* What each update makes of an existing row. *)
LEMMA RowFacts ==
    ASSUME NEW d \in [Jobs -> Rows], NEW j \in Jobs, Exists(d, j)
    PROVE  /\ UpdateJobStatus(d, j, "running")[j]
                 = [status |-> "running", cancel |-> d[j].cancel]
           /\ MarkJobCompleted(d, j)[j] = [status |-> "completed", cancel |-> d[j].cancel]
           /\ MarkJobFailed(d, j)[j] = [status |-> "failed", cancel |-> d[j].cancel]
           /\ MarkJobCancelled(d, j)[j] = [status |-> "cancelled", cancel |-> TRUE]
           /\ SetCancelRequested(d, j)[j] = [status |-> d[j].status, cancel |-> TRUE]
           /\ d[j].cancel \in BOOLEAN
<1>1. d[j].cancel \in BOOLEAN
  BY RowType DEF Exists
<1> QED
  BY <1>1 DEF UpdateJobStatus, MarkJobCompleted, MarkJobFailed, MarkJobCancelled,
     SetCancelRequested, Update

(* e is table d with row j, if there is one, rewritten: the other rows are *)
(* kept, and no row appears or disappears.                                 *)
Rewritten(d, j, e) ==
    /\ e \in [Jobs -> Rows]
    /\ \A k \in Jobs : k # j => e[k] = d[k]
    /\ \A k \in Jobs : Exists(e, k) <=> Exists(d, k)
    /\ ~Exists(d, j) => e = d

(* Writing columns by Update rewrites one row in that sense. *)
LEMMA WriteFacts ==
    ASSUME NEW d \in [Jobs -> Rows], NEW j \in Jobs, NEW s \in Statuses, NEW c,
           Exists(d, j) => c \in BOOLEAN
    PROVE  Rewritten(d, j, Update(d, j, [status |-> s, cancel |-> c]))
<1>1. CASE Exists(d, j)
  BY <1>1, WrittenType, UpdateFacts DEF Rewritten
<1>2. CASE ~Exists(d, j)
  BY <1>2 DEF Update, Rewritten
<1> QED BY <1>1, <1>2

(* So do the updates of crud.py. *)
LEMMA StoreFacts ==
    ASSUME NEW d \in [Jobs -> Rows], NEW j \in Jobs
    PROVE  /\ Rewritten(d, j, UpdateJobStatus(d, j, "running"))
           /\ Rewritten(d, j, MarkJobCompleted(d, j))
           /\ Rewritten(d, j, MarkJobFailed(d, j))
           /\ Rewritten(d, j, MarkJobCancelled(d, j))
           /\ Rewritten(d, j, SetCancelRequested(d, j))
<1>1. Exists(d, j) => d[j].cancel \in BOOLEAN
  BY RowFacts
<1>2. \A s \in Statuses : Rewritten(d, j, UpdateJobStatus(d, j, s))
  BY <1>1, WriteFacts DEF UpdateJobStatus
<1>3. Rewritten(d, j, MarkJobCancelled(d, j))
  BY WriteFacts DEF MarkJobCancelled, Statuses
<1>4. Rewritten(d, j, SetCancelRequested(d, j))
  <2>1. CASE Exists(d, j)
    BY <2>1, WriteFacts DEF SetCancelRequested, Exists
  <2>2. CASE ~Exists(d, j)
    BY <2>2 DEF SetCancelRequested, Update, Rewritten
  <2> QED BY <2>1, <2>2
<1> QED BY <1>2, <1>3, <1>4 DEF MarkJobCompleted, MarkJobFailed, Statuses

(* Inserting and deleting a row. *)
LEMMA CreateFacts ==
    ASSUME NEW d \in [Jobs -> Rows], NEW j \in Jobs
    PROVE  /\ CreateJob(d, j) \in [Jobs -> Rows]
           /\ CreateJob(d, j)[j] = [status |-> "queued", cancel |-> FALSE]
           /\ DeleteJobById(d, j) \in [Jobs -> Rows]
           /\ DeleteJobById(d, j)[j] = NoRow
           /\ ~Exists(DeleteJobById(d, j), j)
           /\ \A k \in Jobs : k # j => CreateJob(d, j)[k] = d[k] /\ DeleteJobById(d, j)[k] = d[k]
BY DEF CreateJob, DeleteJobById, Exists, Rows, NoRow, Statuses

-----------------------------------------------------------------------------
(* The listings of rows by creation are sequences of those rows. *)
LEMMA ListingFacts ==
    ASSUME NEW S \in SUBSET Jobs, NEW s \in ByCreation(S)
    PROVE  /\ s \in Seq(Jobs)
           /\ Distinct(s)
           /\ \A j : Holds(s, j) <=> j \in S
<1>1. Cardinality(S) \in Nat
  BY JobsAssumption, FS_Subset, FS_CardinalityType
<1>2. /\ s \in [1..Cardinality(S) -> S]
      /\ \A a, b \in 1..Cardinality(S) : s[a] = s[b] => a = b
      /\ \A t \in S : \E i \in 1..Cardinality(S) : s[i] = t
  BY DEF ByCreation, Bijection, Injection, Surjection, IsInjective
<1>3. s \in [1..Cardinality(S) -> Jobs]
  BY <1>2
<1>4. s \in Seq(Jobs) /\ Len(s) = Cardinality(S)
  BY <1>1, <1>3, SeqDef, LenProperties
<1> QED BY <1>2, <1>4 DEF Distinct, Holds

(* list_jobs returns rows, too. *)
LEMMA FirstPageFacts ==
    ASSUME NEW S \in SUBSET Jobs, NEW s \in FirstPage(S)
    PROVE  s \in Seq(Jobs)
<1>1. Cardinality(S) \in Nat
  BY JobsAssumption, FS_Subset, FS_CardinalityType
<1>2. PICK n \in Nat : s \in Injection(1..n, S)
  BY <1>1, BatchLimitAssumption DEF FirstPage
<1>3. s \in [1..n -> Jobs]
  BY <1>2 DEF Injection
<1> QED BY <1>3, SeqDef

-----------------------------------------------------------------------------
(* The states a handler and the worker move to. *)

(* The idle request and the idle worker have no job. *)
LEMMA IdleFacts ==
    /\ IdleRequest \in RequestStates
    /\ IdleWorker \in WorkerStates
    /\ IdleRequest.pc = "idle" /\ IdleRequest.job = NoJob
    /\ IdleWorker.pc = "idle" /\ IdleWorker.job = NoJob
<1>1. << >> \in Seq(Jobs)
  BY EmptySeq
<1> QED
  BY <1>1, GroupsAssumption
     DEF IdleRequest, RequestStates, IdleWorker, WorkerStates, RequestPCs, WorkerPCs, Scopes

(* A handler that only moves on keeps its job. *)
LEMMA GotoFacts ==
    ASSUME req \in [Requests -> RequestStates], NEW r \in Requests,
           NEW pc \in RequestPCs, Goto(r, pc)
    PROVE  /\ req' \in [Requests -> RequestStates]
           /\ req'[r].pc = pc /\ req'[r].job = req[r].job
           /\ \A q \in Requests : q # r => req'[q] = req[q]
BY DEF Goto, RequestStates

(* A handler that has answered has no job. *)
LEMMA AnswerFacts ==
    ASSUME req \in [Requests -> RequestStates], NEW r \in Requests, Answer(r)
    PROVE  /\ req' \in [Requests -> RequestStates]
           /\ req'[r].pc = "idle" /\ req'[r].job = NoJob
           /\ \A q \in Requests : q # r => req'[q] = req[q]
BY IdleFacts DEF Answer

(* A request accepted for a job. *)
LEMMA BeginFacts ==
    ASSUME req \in [Requests -> RequestStates], NEW r \in Requests,
           NEW pc \in RequestPCs, NEW j \in Jobs,
           req' = [req EXCEPT ![r] = [IdleRequest EXCEPT !.pc = pc, !.job = j]]
    PROVE  /\ req' \in [Requests -> RequestStates]
           /\ req'[r].pc = pc /\ req'[r].job = j
           /\ \A q \in Requests : q # r => req'[q] = req[q]
<1>1. [IdleRequest EXCEPT !.pc = pc, !.job = j] \in RequestStates
  BY IdleFacts DEF RequestStates
<1>2. /\ [IdleRequest EXCEPT !.pc = pc, !.job = j].pc = pc
      /\ [IdleRequest EXCEPT !.pc = pc, !.job = j].job = j
  BY DEF IdleRequest
<1> QED BY <1>1, <1>2

(* Visiting the first row of a listing. *)
LEMMA VisitFacts ==
    ASSUME req \in [Requests -> RequestStates], NEW r \in Requests,
           NEW todo \in Seq(Jobs), todo # << >>,
           NEW scope \in Scopes, NEW skipped \in BOOLEAN,
           Visit(r, todo, scope, skipped)
    PROVE  /\ req' \in [Requests -> RequestStates]
           /\ todo[1] \in Jobs
           /\ req'[r].job = todo[1]
           /\ req'[r].pc = IF db[todo[1]].status = "running"
                           THEN "cancelFirst" ELSE "dequeue"
           /\ \A q \in Requests : q # r => req'[q] = req[q]
<1>1. 1 \in 1..Len(todo)
  BY EmptySeq, LenProperties
<1>2. todo[1] \in Jobs /\ Drop(todo, 1) \in Seq(Jobs)
  BY <1>1, ElementOfSeq, DropFacts
<1> QED BY <1>2 DEF Visit, RequestPCs, RequestStates

(* A deletion that gives up on a row moves on to the next. *)
LEMMA TimeoutFacts ==
    ASSUME req \in [Requests -> RequestStates], NEW r \in Requests, AwaitTimeout(r)
    PROVE  /\ req' \in [Requests -> RequestStates]
           /\ req'[r].pc = "next" /\ req'[r].job = req[r].job
           /\ \A q \in Requests : q # r => req'[q] = req[q]
BY DEF AwaitTimeout, RequestStates, RequestPCs

(* A worker that only moves on keeps its job and its group. *)
LEMMA WGotoFacts ==
    ASSUME worker \in WorkerStates, NEW pc \in WorkerPCs, WGoto(pc)
    PROVE  /\ worker' \in WorkerStates
           /\ worker'.pc = pc /\ worker'.job = worker.job
           /\ worker'.group = worker.group
BY DEF WGoto, WorkerStates

(* The worker turns to a group. *)
LEMMA WGroupFacts ==
    ASSUME worker \in WorkerStates, NEW g \in Groups,
           worker' = [worker EXCEPT !.pc = "fitting", !.group = g]
    PROVE  /\ worker' \in WorkerStates
           /\ worker'.pc = "fitting" /\ worker'.job = worker.job /\ worker'.group = g
<1>1. g \in 0..NumGroups /\ "fitting" \in WorkerPCs
  BY GroupsAssumption DEF Groups, WorkerPCs, TrainingPCs
<1> QED BY <1>1 DEF WorkerStates

-----------------------------------------------------------------------------
(* Type correctness. *)

(* The service starts in a typed state. *)
LEMMA InitType == Init => TypeOK
<1>1. << >> \in Seq(Jobs)
  BY EmptySeq
<1> QED
  BY <1>1, IdleFacts, MaxCrashesAssumption
     DEF Init, TypeOK, EmptyQueue, Rows

(* Every busy handler and the busy worker have a job, and a worker that    *)
(* fits or saves is at one of the groups.                                  *)
Typed ==
    /\ TypeOK
    /\ \A r \in Requests : req[r].pc # "idle" => req[r].job \in Jobs
    /\ worker.pc # "idle" => worker.job \in Jobs
    /\ worker.pc \in {"fitting", "saving"} => worker.group \in Groups

(* A step of request r that gives its handler a job or lets it answer. *)
LEMMA RequestTyped ==
    ASSUME Typed, NEW r \in Requests,
           req' \in [Requests -> RequestStates],
           req'[r].pc # "idle" => req'[r].job \in Jobs,
           \A q \in Requests : q # r => req'[q] = req[q],
           db' \in [Jobs -> Rows],
           born' \in [Jobs -> Nat], clock' \in Nat,
           outputDir' \in [Jobs -> BOOLEAN], models' \in [Jobs -> SUBSET Groups],
           queue' \in Seq(Jobs), UNCHANGED process
    PROVE  Typed'
BY DEF Typed, TypeOK, process

(* A batch deletion begins by visiting the first row of a listing. *)
LEMMA BatchFacts ==
    ASSUME TypeOK, NEW r \in Requests, BatchDelete(r)
    PROVE  \E todo \in Seq(Jobs), scope \in Scopes :
              todo # << >> /\ Visit(r, todo, scope, FALSE)
<1>1. CASE \E s \in Statuses : \E todo \in ByCreation(WithStatus(db, s)) :
               todo # << >> /\ Visit(r, todo, "status", FALSE)
  <2>1. PICK s \in Statuses : \E todo \in ByCreation(WithStatus(db, s)) :
               todo # << >> /\ Visit(r, todo, "status", FALSE)
    BY <1>1
  <2>2. WithStatus(db, s) \in SUBSET Jobs
    BY DEF TypeOK, WithStatus
  <2> QED BY <2>1, <2>2, ListingFacts DEF Scopes
<1>2. CASE \E todo \in FirstPage({j \in Jobs : Exists(db, j)}) :
               todo # << >> /\ Visit(r, todo, "all", FALSE)
  <2>1. {j \in Jobs : Exists(db, j)} \in SUBSET Jobs
    OBVIOUS
  <2> QED BY <1>2, <2>1, FirstPageFacts DEF Scopes
<1> QED BY <1>1, <1>2 DEF BatchDelete

(* Accepting a request keeps the types. *)
LEMMA AcceptTyped ==
    ASSUME Typed, NEW r \in Requests, Accept(r)
    PROVE  Typed'
<1> USE DEF storage, process
<1>0. TypeOK
  BY DEF Typed
<1>1. CASE Create(r)
  <2>1. PICK j \in Jobs :
            /\ outputDir' = [outputDir EXCEPT ![j] = TRUE]
            /\ req' = [req EXCEPT ![r] = [IdleRequest EXCEPT !.pc = "insert", !.job = j]]
    BY <1>1 DEF Create
  <2>2. outputDir' \in [Jobs -> BOOLEAN]
    BY <1>0, <2>1 DEF TypeOK
  <2>3. /\ req' \in [Requests -> RequestStates] /\ req'[r].job = j
        /\ \A q \in Requests : q # r => req'[q] = req[q]
    BY <1>0, <2>1, BeginFacts DEF TypeOK, RequestPCs
  <2> QED BY <1>0, <1>1, <2>2, <2>3, RequestTyped DEF Create, TypeOK
<1>2. CASE BatchDelete(r)
  <2>1. PICK todo \in Seq(Jobs), scope \in Scopes :
            todo # << >> /\ Visit(r, todo, scope, FALSE)
    BY <1>0, <1>2, BatchFacts
  <2>2. /\ req' \in [Requests -> RequestStates] /\ req'[r].job \in Jobs
        /\ \A q \in Requests : q # r => req'[q] = req[q]
    BY <1>0, <2>1, VisitFacts DEF TypeOK
  <2> QED BY <1>0, <1>2, <2>2, RequestTyped DEF BatchDelete, TypeOK
<1>3. ASSUME NEW j \in Jobs, Cancel(r, j) PROVE Typed'
  <2>1. PICK pc \in RequestPCs :
            req' = [req EXCEPT ![r] = [IdleRequest EXCEPT !.pc = pc, !.job = j]]
    BY <1>3 DEF Cancel, CancelStep, RequestPCs
  <2>2. /\ req' \in [Requests -> RequestStates] /\ req'[r].job = j
        /\ \A q \in Requests : q # r => req'[q] = req[q]
    BY <1>0, <2>1, BeginFacts DEF TypeOK
  <2> QED BY <1>0, <1>3, <2>2, RequestTyped DEF Cancel, TypeOK
<1>4. ASSUME NEW j \in Jobs, Delete(r, j) PROVE Typed'
  <2>1. <<j>> \in Seq(Jobs) /\ <<j>> # << >>
    OBVIOUS
  <2>3. Visit(r, <<j>>, "one", FALSE)
    BY <1>4 DEF Delete
  <2>2. /\ req' \in [Requests -> RequestStates] /\ req'[r].job \in Jobs
        /\ \A q \in Requests : q # r => req'[q] = req[q]
    BY <1>0, <2>1, <2>3, VisitFacts DEF TypeOK, Scopes
  <2> QED BY <1>0, <1>4, <2>2, RequestTyped DEF Delete, TypeOK
<1> QED BY <1>1, <1>2, <1>3, <1>4 DEF Accept

(* Every step of a handler keeps the types. *)
LEMMA HandlerTyped ==
    ASSUME Typed, NEW r \in Requests, Handler(r)
    PROVE  Typed'
<1> DEFINE j == req[r].job
<1> USE DEF storage, process
<1>0. TypeOK /\ req[r].pc # "idle" /\ j \in Jobs
  BY DEF Typed, Handler, At, InsertRow, EnqueueJob, CancelQueued, CancelRunning,
     CancelFirst, AwaitStopped, AwaitTimeout, DequeueDeleted, RemoveFiles, DeleteRow,
     NextCandidate
<1>a. ASSUME NEW pc \in RequestPCs, Goto(r, pc)
      PROVE  /\ req' \in [Requests -> RequestStates] /\ req'[r].job \in Jobs
             /\ \A q \in Requests : q # r => req'[q] = req[q]
  BY <1>0, <1>a, GotoFacts DEF TypeOK
<1>b. ASSUME Answer(r)
      PROVE  /\ req' \in [Requests -> RequestStates] /\ req'[r].pc = "idle"
             /\ \A q \in Requests : q # r => req'[q] = req[q]
  BY <1>0, <1>b, AnswerFacts DEF TypeOK
<1>c. \A e : Rewritten(db, j, e) => e \in [Jobs -> Rows]
  BY DEF Rewritten
<1>d. /\ CreateJob(db, j) \in [Jobs -> Rows]
      /\ DeleteJobById(db, j) \in [Jobs -> Rows]
      /\ MarkJobCancelled(db, j) \in [Jobs -> Rows]
      /\ SetCancelRequested(db, j) \in [Jobs -> Rows]
  BY <1>0, <1>c, StoreFacts, CreateFacts DEF TypeOK
<1>1. CASE InsertRow(r)
  <2>1. /\ db' \in [Jobs -> Rows] /\ clock' \in Nat /\ born' \in [Jobs -> Nat]
        /\ Goto(r, "enqueue")
    BY <1>0, <1>1, <1>d DEF InsertRow, TypeOK
  <2> QED BY <1>0, <1>1, <1>a, <2>1, RequestTyped DEF InsertRow, TypeOK, RequestPCs
<1>2. CASE EnqueueJob(r)
  <2>1. queue' \in Seq(Jobs) /\ Answer(r)
    BY <1>0, <1>2, EnqueueFacts DEF EnqueueJob, TypeOK
  <2> QED BY <1>0, <1>2, <1>b, <2>1, RequestTyped DEF EnqueueJob, TypeOK
<1>3. CASE CancelQueued(r)
  BY <1>0, <1>3, <1>b, <1>d, RequestTyped DEF CancelQueued, TypeOK
<1>4. CASE CancelRunning(r)
  BY <1>0, <1>4, <1>b, <1>d, RequestTyped DEF CancelRunning, TypeOK
<1>5. CASE CancelFirst(r)
  BY <1>0, <1>5, <1>a, <1>d, RequestTyped DEF CancelFirst, TypeOK, RequestPCs
<1>6. CASE AwaitStopped(r)
  BY <1>0, <1>6, <1>a, RequestTyped DEF AwaitStopped, TypeOK, RequestPCs
<1>7. CASE AwaitTimeout(r)
  BY <1>0, <1>7, TimeoutFacts, RequestTyped DEF AwaitTimeout, TypeOK
<1>8. CASE DequeueDeleted(r)
  <2>1. queue' \in Seq(Jobs) /\ Goto(r, "removeFiles")
    BY <1>0, <1>8, RemoveType DEF DequeueDeleted, TypeOK
  <2> QED BY <1>0, <1>8, <1>a, <2>1, RequestTyped DEF DequeueDeleted, TypeOK, RequestPCs
<1>9. CASE RemoveFiles(r)
  <2>1. /\ outputDir' \in [Jobs -> BOOLEAN] /\ models' \in [Jobs -> SUBSET Groups]
        /\ Goto(r, "deleteRow")
    BY <1>0, <1>9 DEF RemoveFiles, TypeOK
  <2> QED BY <1>0, <1>9, <1>a, <2>1, RequestTyped DEF RemoveFiles, TypeOK, RequestPCs
<1>10. CASE DeleteRow(r)
  BY <1>0, <1>10, <1>a, <1>d, RequestTyped DEF DeleteRow, TypeOK, RequestPCs
<1>11. CASE NextCandidate(r)
  <2>1. CASE req[r].todo = << >>
    BY <1>0, <1>11, <1>b, <2>1, RequestTyped DEF NextCandidate, TypeOK
  <2>2. CASE req[r].todo # << >>
    <3>1. /\ req[r].todo \in Seq(Jobs) /\ req[r].scope \in Scopes
          /\ req[r].skipped \in BOOLEAN
      BY <1>0 DEF TypeOK, RequestStates
    <3>2. Visit(r, req[r].todo, req[r].scope, req[r].skipped)
      BY <1>11, <2>2 DEF NextCandidate
    <3>3. /\ req' \in [Requests -> RequestStates] /\ req'[r].job = req[r].todo[1]
          /\ req[r].todo[1] \in Jobs
          /\ \A q \in Requests : q # r => req'[q] = req[q]
      <4>1. req \in [Requests -> RequestStates]
        BY <1>0 DEF TypeOK
      <4> QED BY ONLY <2>2, <3>1, <3>2, <4>1, r \in Requests, VisitFacts
    <3> QED BY <1>0, <1>11, <3>3, RequestTyped DEF NextCandidate, TypeOK
  <2> QED BY <2>1, <2>2
<1> QED
  BY <1>1, <1>2, <1>3, <1>4, <1>5, <1>6, <1>7, <1>8, <1>9, <1>10, <1>11 DEF Handler

(* A step of the worker. *)
LEMMA WorkerStepTyped ==
    ASSUME Typed,
           worker' \in WorkerStates,
           worker'.pc # "idle" => worker'.job \in Jobs,
           worker'.pc \in {"fitting", "saving"} => worker'.group \in Groups,
           db' \in [Jobs -> Rows],
           outputDir' \in [Jobs -> BOOLEAN], models' \in [Jobs -> SUBSET Groups],
           queue' \in Seq(Jobs), UNCHANGED service
    PROVE  Typed'
BY DEF Typed, TypeOK, service

(* Every step of the worker keeps the types. *)
LEMMA WorkerTyped ==
    ASSUME Typed, Worker
    PROVE  Typed'
<1> USE DEF service, files, WAt
<1>0. TypeOK
  BY DEF Typed
<1>a. ASSUME NEW pc \in WorkerPCs \ {"fitting", "saving"}, worker.pc # "idle", WGoto(pc)
      PROVE  /\ worker' \in WorkerStates /\ worker'.job \in Jobs
             /\ worker'.pc \notin {"fitting", "saving"}
  BY <1>0, <1>a, WGotoFacts DEF TypeOK, Typed
<1>b. /\ IdleWorker \in WorkerStates
      /\ IdleWorker.pc = "idle"
  BY IdleFacts
<1>c. worker.pc # "idle" =>
        /\ MarkJobCompleted(db, worker.job) \in [Jobs -> Rows]
        /\ MarkJobCancelled(db, worker.job) \in [Jobs -> Rows]
        /\ MarkJobFailed(db, worker.job) \in [Jobs -> Rows]
        /\ UpdateJobStatus(db, worker.job, "running") \in [Jobs -> Rows]
  BY <1>0, StoreFacts DEF Typed, TypeOK, Rewritten
<1>d. {"cancelling", "starting", "failing", "preparing", "deciding", "completing"}
        \subseteq WorkerPCs \ {"fitting", "saving"}
      /\ "saving" \in WorkerPCs
  BY DEF WorkerPCs, TrainingPCs
<1>1. CASE WDequeue
  <2>1. 1 \in 1..Len(queue)
    BY <1>0, <1>1, EmptySeq, LenProperties DEF WDequeue, EmptyQueue, TypeOK
  <2>2. Oldest(queue) \in Jobs /\ Dequeue(queue) \in Seq(Jobs)
    BY <1>0, <2>1, ElementOfSeq, DropFacts DEF Oldest, Dequeue, TypeOK
  <2>3. [pc |-> "loading", job |-> Oldest(queue), group |-> 0] \in WorkerStates
    BY <2>2, GroupsAssumption DEF WorkerStates, WorkerPCs
  <2> QED BY <1>0, <1>1, <2>2, <2>3, WorkerStepTyped DEF WDequeue, TypeOK
<1>2. CASE WLoad
  <2>1. worker' = IdleWorker \/ WGoto("cancelling") \/ WGoto("starting")
    BY <1>2 DEF WLoad
  <2> QED BY <1>0, <1>2, <1>a, <1>b, <1>d, <2>1, WorkerStepTyped DEF WLoad, TypeOK
<1>3. CASE WStart
  <2>1. WGoto("preparing") \/ WGoto("failing")
    BY <1>3 DEF WStart
  <2> QED BY <1>0, <1>3, <1>a, <1>c, <1>d, <2>1, WorkerStepTyped DEF WStart, TypeOK
<1>4. CASE WPrepare
  <2>1. outputDir' \in [Jobs -> BOOLEAN]
    BY <1>0, <1>4 DEF WPrepare, TypeOK
  <2>2. CASE CancelSeen
    <3>1. WGoto("cancelling")
      BY <1>4, <2>2 DEF WPrepare
    <3> QED BY <1>0, <1>4, <1>a, <1>d, <2>1, <3>1, WorkerStepTyped DEF WPrepare, TypeOK
  <2>3. CASE ~CancelSeen
    <3>1. 1 \in Groups /\ worker' = [worker EXCEPT !.pc = "fitting", !.group = 1]
      BY <1>4, <2>3, GroupsAssumption DEF Groups, WPrepare
    <3>2. /\ worker' \in WorkerStates /\ worker'.job = worker.job
          /\ worker'.group \in Groups
      BY <1>0, <3>1, WGroupFacts DEF TypeOK
    <3>3. worker.job \in Jobs
      BY <1>4 DEF WPrepare, Typed
    <3> QED BY <1>0, <1>4, <2>1, <3>2, <3>3, WorkerStepTyped DEF WPrepare, TypeOK
  <2> QED BY <2>2, <2>3
<1>5. CASE WFit
  <2>1. worker.job \in Jobs /\ worker.group \in Groups
    BY <1>5 DEF WFit, Typed
  <2>2. WGoto("cancelling") \/ WGoto("saving")
    BY <1>5 DEF WFit
  <2>3. worker' \in WorkerStates /\ worker'.job \in Jobs /\ worker'.group \in Groups
    BY <1>0, <1>d, <2>1, <2>2, WGotoFacts DEF TypeOK
  <2> QED BY <1>0, <1>5, <2>3, WorkerStepTyped DEF WFit, TypeOK
<1>6. CASE WSave
  <2>1. worker.group \in Groups /\ worker.job \in Jobs
    BY <1>6 DEF WSave, MoreGroups, Typed
  <2>2. models' \in [Jobs -> SUBSET Groups] /\ outputDir' \in [Jobs -> BOOLEAN]
    BY <1>0, <1>6, <2>1 DEF WSave, MoreGroups, TypeOK
  <2>3. CASE worker.group < NumGroups
    <3>1. /\ worker.group + 1 \in Groups
          /\ worker' = [worker EXCEPT !.pc = "fitting", !.group = worker.group + 1]
      BY <1>6, <2>1, <2>3, GroupsAssumption DEF Groups, WSave, MoreGroups
    <3>2. /\ worker' \in WorkerStates /\ worker'.job = worker.job
          /\ worker'.group \in Groups
      BY <1>0, <3>1, WGroupFacts DEF TypeOK
    <3> QED BY <1>0, <1>6, <2>1, <2>2, <3>2, WorkerStepTyped DEF WSave, MoreGroups, TypeOK
  <2>4. CASE ~(worker.group < NumGroups)
    <3>1. WGoto("deciding")
      BY <1>6, <2>4 DEF WSave, MoreGroups
    <3> QED BY <1>0, <1>6, <1>a, <1>d, <2>2, <3>1, WorkerStepTyped DEF WSave, MoreGroups, TypeOK
  <2> QED BY <2>3, <2>4
<1>7. CASE WTrainError
  BY <1>0, <1>7, <1>a, <1>d, WorkerStepTyped DEF WTrainError, TypeOK
<1>8. CASE WDecide
  <2>1. WGoto("cancelling") \/ WGoto("completing")
    BY <1>8 DEF WDecide
  <2> QED BY <1>0, <1>8, <1>a, <1>d, <2>1, WorkerStepTyped DEF WDecide, TypeOK
<1>9. CASE WComplete
  BY <1>0, <1>9, <1>b, <1>c, WorkerStepTyped DEF WComplete, TypeOK
<1>10. CASE WCancel
  BY <1>0, <1>10, <1>b, <1>c, WorkerStepTyped DEF WCancel, TypeOK
<1>11. CASE WFail
  BY <1>0, <1>11, <1>b, <1>c, WorkerStepTyped DEF WFail, TypeOK
<1> QED
  BY <1>1, <1>2, <1>3, <1>4, <1>5, <1>6, <1>7, <1>8, <1>9, <1>10, <1>11 DEF Worker

(* Crashes and restarts keep the types. *)
LEMMA ProcessTyped ==
    ASSUME Typed, Crash \/ Boot
    PROVE  Typed'
<1> USE DEF Typed, TypeOK, storage
<1>1. CASE Crash
  <2>1. << >> \in Seq(Jobs) /\ crashes + 1 \in 0..MaxCrashes
    BY <1>1, EmptySeq, MaxCrashesAssumption DEF Crash
  <2> QED BY <1>1, <2>1, IdleFacts DEF Crash, EmptyQueue
<1>2. CASE Boot
  <2>1. WithStatus(db, "queued") \in SUBSET Jobs /\ WithStatus(db, "running") \in SUBSET Jobs
    BY DEF WithStatus
  <2>2. PICK waiting \in ByCreation(WithStatus(db, "queued")),
             interrupted \in ByCreation(WithStatus(db, "running")) :
                queue' = waiting \o interrupted
    BY <1>2 DEF Boot
  <2>3. waiting \in Seq(Jobs) /\ interrupted \in Seq(Jobs)
    BY <2>1, ListingFacts
  <2>4. queue' \in Seq(Jobs)
    BY <2>2, <2>3, ConcatProperties
  <2> QED BY <1>2, <2>4 DEF Boot
<1> QED BY <1>1, <1>2

(* So the strengthened type invariant always holds. *)
LEMMA TypedInvariant == Spec => []Typed
<1>1. Init => Typed
  BY InitType, IdleFacts DEF Init, Typed
<1>2. Typed /\ [Next]_vars => Typed'
  <2> SUFFICES ASSUME Typed, [Next]_vars PROVE Typed'
    OBVIOUS
  <2>1. CASE UNCHANGED vars
    BY <2>1 DEF Typed, TypeOK, vars
  <2> QED
    BY <2>1, AcceptTyped, HandlerTyped, WorkerTyped, ProcessTyped DEF Next
<1> QED BY <1>1, <1>2, PTL DEF Spec

(* Type correctness of the service: every row, request and the worker stay *)
(* in the shapes the code gives them, whatever interleaves or crashes.     *)
THEOREM TypeCorrect == Spec => []TypeOK
<1>1. Typed => TypeOK
  BY DEF Typed
<1> QED BY <1>1, TypedInvariant, PTL

-----------------------------------------------------------------------------
(* The inductive invariant behind the safety properties.                   *)

(* At most one handler is between its first and its last statement. *)
OneHandler ==
    \A r, q \in Requests : req[r].pc # "idle" /\ req[q].pc # "idle" => r = q

(* A process that is down has neither a queue nor threads. *)
DownIsEmpty ==
    ~up => queue = << >> /\ worker = IdleWorker /\ LoopFree

(* Whatever refers to a job refers to one that was inserted. *)
OnlyBorn ==
    /\ \A j \in Jobs : Exists(db, j) \/ Holds(queue, j) \/ worker.job = j => born[j] # 0
    /\ \A r \in Requests :
          /\ req[r].pc = "insert" => born[req[r].job] = 0
          /\ req[r].pc = "enqueue" => born[req[r].job] # 0

(* The worker without a job has none; a queue or a worker with a job has   *)
(* one that is neither completed nor failed, and so has its creator.       *)
ClaimsUnfinished ==
    /\ worker.pc = "idle" <=> worker.job = NoJob
    /\ \A j \in Jobs :
          \/ Holds(queue, j) \/ worker.job = j
          \/ \E r \in Requests : req[r].pc = "enqueue" /\ req[r].job = j
          => db[j].status \notin {"completed", "failed"}

(* The flag is set only on a row that has left the queued status. *)
FlagsLeftQueue ==
    \A r \in Requests :
        req[r].pc \in {"setFlag", "cancelFirst"} => db[req[r].job].status # "queued"

IInv ==
    /\ OneHandler /\ DownIsEmpty /\ OnlyBorn /\ ClaimsUnfinished /\ FlagsLeftQueue
    /\ SingleHolder /\ NoLostJob /\ AssertExists /\ QueuedNotFlagged

(* While one handler is busy, every other request is idle. *)
LEMMA Alone ==
    ASSUME IInv, NEW r \in Requests, Accept(r) \/ Handler(r)
    PROVE  up /\ \A q \in Requests : q # r => req[q].pc = "idle"
<1>1. CASE Accept(r)
  BY <1>1 DEF Accept, Create, BatchDelete, Cancel, Delete, LoopFree
<1>2. CASE Handler(r)
  <2>1. up /\ req[r].pc # "idle"
    BY <1>2 DEF Handler, At, InsertRow, EnqueueJob, CancelQueued, CancelRunning,
       CancelFirst, AwaitStopped, AwaitTimeout, DequeueDeleted, RemoveFiles, DeleteRow,
       NextCandidate
  <2> QED BY <2>1 DEF IInv, OneHandler
<1> QED BY <1>1, <1>2

(* A request moves on and nothing else that the invariant is about does:   *)
(* it may not claim a job, and may let go of one only if it is not live.   *)
LEMMA RequestMoves ==
    ASSUME Typed, IInv, NEW r \in Requests, up,
           \A q \in Requests : q # r => req[q].pc = "idle",
           \A q \in Requests : q # r => req'[q] = req[q],
           UNCHANGED <<db, born, queue, worker, up>>,
           req'[r].pc = "insert" => born[req'[r].job] = 0,
           req'[r].pc # "enqueue",
           req'[r].pc \in {"markCancelled", "setFlag"} => Exists(db, req'[r].job),
           req'[r].pc \in {"setFlag", "cancelFirst"} => db[req'[r].job].status # "queued",
           req[r].pc \in {"enqueue", "removeFiles", "deleteRow"}
             => \/ ~Live(req[r].job)
                \/ req'[r].pc \in {"removeFiles", "deleteRow"} /\ req'[r].job = req[r].job
    PROVE  IInv'
<1> USE DEF IInv
<1>1. OneHandler' /\ DownIsEmpty'
  BY DEF OneHandler, DownIsEmpty
<1>2. OnlyBorn'
  BY DEF OnlyBorn, Exists
<1>3. ClaimsUnfinished'
  BY DEF ClaimsUnfinished
<1>4. FlagsLeftQueue' /\ AssertExists'
  BY DEF FlagsLeftQueue, AssertExists, Exists
<1>5. SingleHolder'
  BY DEF SingleHolder
<1>6. NoLostJob'
  <2> SUFFICES ASSUME NEW j \in Jobs, Live(j),
                      ~Holds(queue, j), worker.job # j
               PROVE  \E q \in Requests : req'[q].job = j
                        /\ req'[q].pc \in {"enqueue", "removeFiles", "deleteRow"}
    BY DEF NoLostJob, Live
  <2>1. PICK q \in Requests : req[q].job = j
            /\ req[q].pc \in {"enqueue", "removeFiles", "deleteRow"}
    BY DEF NoLostJob
  <2> QED BY <2>1
<1>7. QueuedNotFlagged'
  BY DEF QueuedNotFlagged
<1> QED BY <1>1, <1>2, <1>3, <1>4, <1>5, <1>6, <1>7

(* A handler rewrites the row it works on, keeping its status or making it *)
(* cancelled, and holds no claim before or after.                          *)
LEMMA RequestWrites ==
    ASSUME Typed, IInv, NEW r \in Requests, up, NEW j \in Jobs,
           \A q \in Requests : q # r => req[q].pc = "idle",
           \A q \in Requests : q # r => req'[q] = req[q],
           UNCHANGED <<born, queue, worker, up>>,
           Rewritten(db, j, db'),
           db'[j].status \in {db[j].status, "cancelled"},
           db'[j].status = "queued" => ~db'[j].cancel,
           req[r].pc \in {"markCancelled", "setFlag", "cancelFirst"},
           req'[r].pc \in {"idle", "await"}
    PROVE  IInv'
<1> USE DEF IInv, Rewritten
<1>1. OneHandler' /\ DownIsEmpty'
  BY DEF OneHandler, DownIsEmpty
<1>2. OnlyBorn'
  BY DEF OnlyBorn
<1>3. ClaimsUnfinished'
  BY DEF ClaimsUnfinished
<1>4. FlagsLeftQueue' /\ AssertExists'
  BY DEF FlagsLeftQueue, AssertExists
<1>5. SingleHolder'
  BY DEF SingleHolder
<1>6. NoLostJob'
  BY DEF NoLostJob, Live
<1>7. QueuedNotFlagged'
  BY DEF QueuedNotFlagged
<1> QED BY <1>1, <1>2, <1>3, <1>4, <1>5, <1>6, <1>7

(* Accepting a request keeps the inductive invariant. *)
LEMMA AcceptKeepsIInv ==
    ASSUME Typed, IInv, NEW r \in Requests, Accept(r)
    PROVE  IInv'
<1> USE DEF storage, process
<1>0. /\ req \in [Requests -> RequestStates] /\ up
      /\ \A q \in Requests : q # r => req[q].pc = "idle"
  BY Alone DEF Typed, TypeOK
<1>a. req[r].pc = "idle"
  BY DEF Accept, Create, BatchDelete, Cancel, Delete, LoopFree
<1>b. ASSUME NEW todo \in Seq(Jobs), todo # << >>, NEW scope \in Scopes,
             Visit(r, todo, scope, FALSE), UNCHANGED <<db, born, queue, worker, up>>
      PROVE  IInv'
  <2>1. /\ \A q \in Requests : q # r => req'[q] = req[q]
        /\ req'[r].job = todo[1]
        /\ req'[r].pc = IF db[todo[1]].status = "running" THEN "cancelFirst" ELSE "dequeue"
    BY <1>0, <1>b, VisitFacts
  <2> QED BY <1>0, <1>a, <1>b, <2>1, RequestMoves
<1>1. CASE Create(r)
  <2>1. PICK j \in Jobs :
            /\ born[j] = 0
            /\ req' = [req EXCEPT ![r] = [IdleRequest EXCEPT !.pc = "insert", !.job = j]]
    BY <1>1 DEF Create
  <2>2. /\ req'[r].pc = "insert" /\ req'[r].job = j
        /\ \A q \in Requests : q # r => req'[q] = req[q]
    BY <1>0, <2>1, BeginFacts DEF RequestPCs
  <2> QED BY <1>0, <1>1, <1>a, <2>1, <2>2, RequestMoves DEF Create
<1>2. CASE BatchDelete(r)
  <2>1. PICK todo \in Seq(Jobs), scope \in Scopes :
            todo # << >> /\ Visit(r, todo, scope, FALSE)
    BY <1>2, BatchFacts DEF Typed
  <2> QED BY <1>2, <1>b, <2>1 DEF BatchDelete
<1>3. ASSUME NEW j \in Jobs, Cancel(r, j) PROVE IInv'
  <2> DEFINE pc == IF db[j].status = "queued" THEN "markCancelled" ELSE "setFlag"
  <2>1. /\ req' = [req EXCEPT ![r] = [IdleRequest EXCEPT !.pc = pc, !.job = j]]
        /\ pc \in RequestPCs /\ Exists(db, j)
        /\ pc = "setFlag" => db[j].status # "queued"
        /\ pc \in {"markCancelled", "setFlag"}
    BY <1>3 DEF Cancel, CancelStep, RequestPCs, Live, Exists, Statuses
  <2> HIDE DEF pc
  <2>2. /\ req'[r].pc = pc /\ req'[r].job = j
        /\ \A q \in Requests : q # r => req'[q] = req[q]
    BY <1>0, <2>1, BeginFacts
  <2> QED BY <1>0, <1>3, <1>a, <2>1, <2>2, RequestMoves DEF Cancel
<1>4. ASSUME NEW j \in Jobs, Delete(r, j) PROVE IInv'
  <2>1. <<j>> \in Seq(Jobs) /\ <<j>> # << >>
    OBVIOUS
  <2> QED BY <1>4, <1>b, <2>1 DEF Delete, Scopes
<1> QED BY <1>1, <1>2, <1>3, <1>4 DEF Accept

(* Every step of a handler keeps the inductive invariant. *)
LEMMA HandlerKeepsIInv ==
    ASSUME Typed, IInv, NEW r \in Requests, Handler(r)
    PROVE  IInv'
<1> DEFINE j == req[r].job
<1> USE DEF storage, process, At
<1>0. /\ req \in [Requests -> RequestStates] /\ up /\ queue \in Seq(Jobs)
      /\ db \in [Jobs -> Rows] /\ born \in [Jobs -> Nat] /\ clock \in Nat
      /\ \A q \in Requests : q # r => req[q].pc = "idle"
      /\ req[r].pc # "idle" /\ j \in Jobs
  <2>1. req[r].pc # "idle"
    BY DEF Handler, InsertRow, EnqueueJob, CancelQueued, CancelRunning,
       CancelFirst, AwaitStopped, AwaitTimeout, DequeueDeleted, RemoveFiles, DeleteRow,
       NextCandidate
  <2> QED BY <2>1, Alone DEF Typed, TypeOK
<1>a. ASSUME NEW pc \in RequestPCs, Goto(r, pc)
      PROVE  /\ req'[r].pc = pc /\ req'[r].job = j
             /\ \A q \in Requests : q # r => req'[q] = req[q]
  BY <1>0, <1>a, GotoFacts
<1>b. ASSUME Answer(r)
      PROVE  req'[r].pc = "idle" /\ \A q \in Requests : q # r => req'[q] = req[q]
  BY <1>0, <1>b, AnswerFacts
<1>1. CASE InsertRow(r)
  <2>1. /\ db' = CreateJob(db, j) /\ born' = [born EXCEPT ![j] = clock + 1]
        /\ Goto(r, "enqueue") /\ UNCHANGED <<queue, worker, up>> /\ req[r].pc = "insert"
    BY <1>1 DEF InsertRow
  <2>2. /\ db'[j] = [status |-> "queued", cancel |-> FALSE]
        /\ \A k \in Jobs : k # j => db'[k] = db[k]
    BY <1>0, <2>1, CreateFacts
  <2>3. born'[j] # 0 /\ \A k \in Jobs : k # j => born'[k] = born[k]
    BY <1>0, <2>1
  <2>4. /\ req'[r].pc = "enqueue" /\ req'[r].job = j
        /\ \A q \in Requests : q # r => req'[q] = req[q]
    BY <1>a, <2>1 DEF RequestPCs
  <2>5. ~Holds(queue, j) /\ worker.job # j
    BY <1>0, <2>1 DEF IInv, OnlyBorn
  <2> USE <1>0, <2>1, <2>2, <2>3, <2>4, <2>5 DEF IInv
  <2>6. OneHandler' /\ DownIsEmpty'
    BY DEF OneHandler, DownIsEmpty
  <2>7. OnlyBorn'
    BY DEF OnlyBorn, Exists
  <2>8. ClaimsUnfinished'
    <3>1. db'[j].status = "queued"
      BY <2>2
    <3>2. \A q \in Requests : req'[q].pc = "enqueue" => q = r
      BY <2>4
    <3>3. ASSUME NEW k \in Jobs, k # j, Holds(queue, k) \/ worker.job = k
          PROVE  db[k].status \notin {"completed", "failed"}
      BY <3>3 DEF ClaimsUnfinished
    <3> QED BY <3>1, <3>2, <3>3 DEF ClaimsUnfinished
  <2>9. FlagsLeftQueue' /\ AssertExists'
    BY DEF FlagsLeftQueue, AssertExists
  <2>10. SingleHolder'
    BY DEF SingleHolder
  <2>11. NoLostJob'
    BY DEF NoLostJob, Live
  <2>12. QueuedNotFlagged'
    BY DEF QueuedNotFlagged
  <2> QED BY <2>6, <2>7, <2>8, <2>9, <2>10, <2>11, <2>12
<1>2. CASE EnqueueJob(r)
  <2>1. /\ queue' = Enqueue(queue, j) /\ Answer(r) /\ req[r].pc = "enqueue"
        /\ UNCHANGED <<db, born, worker, up>>
    BY <1>2 DEF EnqueueJob
  <2>2. req'[r].pc = "idle" /\ \A q \in Requests : q # r => req'[q] = req[q]
    BY <1>b, <2>1
  <2>3. ~Holds(queue, j) /\ worker.job # j /\ born[j] # 0
        /\ db[j].status \notin {"completed", "failed"}
    BY <1>0, <2>1 DEF IInv, SingleHolder, OnlyBorn, ClaimsUnfinished
  <2>4. /\ \A k : Holds(queue', k) <=> Holds(queue, k) \/ k = j
        /\ Distinct(queue')
    BY <1>0, <2>1, <2>3, EnqueueFacts DEF IInv, SingleHolder
  <2> USE <1>0, <2>1, <2>2, <2>3, <2>4 DEF IInv
  <2>5. OneHandler' /\ DownIsEmpty'
    BY DEF OneHandler, DownIsEmpty
  <2>6. OnlyBorn'
    BY DEF OnlyBorn, Exists
  <2>7. ClaimsUnfinished'
    BY DEF ClaimsUnfinished
  <2>8. FlagsLeftQueue' /\ AssertExists'
    BY DEF FlagsLeftQueue, AssertExists
  <2>9. SingleHolder'
    BY JobsAssumption DEF SingleHolder
  <2>10. NoLostJob'
    BY DEF NoLostJob, Live
  <2>11. QueuedNotFlagged'
    BY DEF QueuedNotFlagged
  <2> QED BY <2>5, <2>6, <2>7, <2>8, <2>9, <2>10, <2>11
<1>3. CASE CancelQueued(r)
  <2>1. /\ Rewritten(db, j, db')
        /\ db'[j].status \in {db[j].status, "cancelled"}
        /\ db'[j].status # "queued"
    <3>1. db' = MarkJobCancelled(db, j) /\ Exists(db, j)
      BY <1>0, <1>3 DEF CancelQueued, IInv, AssertExists
    <3>2. db'[j] = [status |-> "cancelled", cancel |-> TRUE]
      BY <1>0, <3>1, RowFacts
    <3> QED BY <1>0, <3>1, <3>2, StoreFacts
  <2> QED BY <1>0, <1>3, <1>b, <2>1, RequestWrites DEF CancelQueued
<1>c. ASSUME db' = SetCancelRequested(db, j), req[r].pc \in {"setFlag", "cancelFirst"}
      PROVE  /\ Rewritten(db, j, db')
             /\ db'[j].status = db[j].status
             /\ db'[j].status # "queued"
  <2>1. CASE Exists(db, j)
    <3>1. db'[j].status = db[j].status
      <4>1. SetCancelRequested(db, j)[j] = [status |-> db[j].status, cancel |-> TRUE]
        BY <1>0, <2>1, RowFacts
      <4> QED BY <1>c, <4>1
    <3> QED BY <1>0, <1>c, <3>1, StoreFacts DEF IInv, FlagsLeftQueue
  <2>2. CASE ~Exists(db, j)
    <3>1. Rewritten(db, j, db') /\ db' = db
      BY <1>0, <1>c, <2>2, StoreFacts DEF Rewritten
    <3> QED BY <1>0, <1>c, <3>1 DEF IInv, FlagsLeftQueue
  <2> QED BY <2>1, <2>2
<1>4. CASE CancelRunning(r)
  BY <1>0, <1>4, <1>b, <1>c, RequestWrites DEF CancelRunning
<1>5. CASE CancelFirst(r)
  BY <1>0, <1>5, <1>a, <1>c, RequestWrites DEF CancelFirst, RequestPCs
<1>6. CASE AwaitStopped(r)
  BY <1>0, <1>6, <1>a, RequestMoves DEF AwaitStopped, RequestPCs
<1>7. CASE AwaitTimeout(r)
  BY <1>0, <1>7, TimeoutFacts, RequestMoves DEF AwaitTimeout
<1>8. CASE DequeueDeleted(r)
  <2>1. /\ queue' = Remove(queue, j) /\ Goto(r, "removeFiles")
        /\ UNCHANGED <<db, born, worker, up>> /\ req[r].pc = "dequeue"
    BY <1>8 DEF DequeueDeleted
  <2>2. /\ req'[r].pc = "removeFiles" /\ req'[r].job = j
        /\ \A q \in Requests : q # r => req'[q] = req[q]
    BY <1>a, <2>1 DEF RequestPCs
  <2>3. /\ \A k : Holds(queue', k) <=> Holds(queue, k) /\ k # j
        /\ Distinct(queue')
    BY <1>0, <2>1, RemoveFacts DEF IInv, SingleHolder
  <2> USE <1>0, <2>1, <2>2, <2>3 DEF IInv
  <2>4. OneHandler' /\ DownIsEmpty'
    BY DEF OneHandler, DownIsEmpty
  <2>5. OnlyBorn'
    BY DEF OnlyBorn, Exists
  <2>6. ClaimsUnfinished'
    BY DEF ClaimsUnfinished
  <2>7. FlagsLeftQueue' /\ AssertExists'
    BY DEF FlagsLeftQueue, AssertExists
  <2>8. SingleHolder'
    BY DEF SingleHolder
  <2>9. NoLostJob'
    BY DEF NoLostJob, Live
  <2>10. QueuedNotFlagged'
    BY DEF QueuedNotFlagged
  <2> QED BY <2>4, <2>5, <2>6, <2>7, <2>8, <2>9, <2>10
<1>9. CASE RemoveFiles(r)
  BY <1>0, <1>9, <1>a, RequestMoves DEF RemoveFiles, RequestPCs
<1>10. CASE DeleteRow(r)
  <2>1. /\ db' = DeleteJobById(db, j) /\ Goto(r, "next")
        /\ UNCHANGED <<born, queue, worker, up>> /\ req[r].pc = "deleteRow"
    BY <1>10 DEF DeleteRow
  <2>2. /\ db'[j] = NoRow /\ ~Exists(db', j)
        /\ \A k \in Jobs : k # j => db'[k] = db[k]
    BY <1>0, <2>1, CreateFacts
  <2>a. db'[j].status = "absent"
    BY <2>2 DEF NoRow
  <2>3. /\ req'[r].pc = "next" /\ req'[r].job = j
        /\ \A q \in Requests : q # r => req'[q] = req[q]
    BY <1>a, <2>1 DEF RequestPCs
  <2> USE <1>0, <2>1, <2>2, <2>3, <2>a DEF IInv
  <2>4. OneHandler' /\ DownIsEmpty'
    BY DEF OneHandler, DownIsEmpty
  <2>5. OnlyBorn'
    <3>1. \A k \in Jobs : Exists(db', k) => Exists(db, k)
      BY DEF Exists
    <3> QED BY <3>1 DEF OnlyBorn
  <2>6. ClaimsUnfinished'
    BY DEF ClaimsUnfinished, NoRow
  <2>7. FlagsLeftQueue' /\ AssertExists'
    BY DEF FlagsLeftQueue, AssertExists
  <2>8. SingleHolder'
    BY DEF SingleHolder
  <2>9. NoLostJob'
    <3>1. ASSUME NEW k \in Jobs, db'[k].status \in {"queued", "running"}
          PROVE  k # j /\ Live(k)
      BY <3>1 DEF Live
    <3>2. \A q \in Requests : req[q].pc \in {"enqueue", "removeFiles", "deleteRow"}
             => req[q].job = j
      BY <2>1
    <3> QED BY <3>1, <3>2 DEF NoLostJob, Live
  <2>10. QueuedNotFlagged'
    BY DEF QueuedNotFlagged, NoRow
  <2> QED BY <2>4, <2>5, <2>6, <2>7, <2>8, <2>9, <2>10
<1>11. CASE NextCandidate(r)
  <2>1. CASE req[r].todo = << >>
    BY <1>0, <1>11, <1>b, <2>1, RequestMoves DEF NextCandidate
  <2>2. CASE req[r].todo # << >>
    <3>1. /\ req[r].todo \in Seq(Jobs) /\ req[r].scope \in Scopes
          /\ req[r].skipped \in BOOLEAN
      BY <1>0 DEF RequestStates
    <3>2. Visit(r, req[r].todo, req[r].scope, req[r].skipped)
      BY <1>11, <2>2 DEF NextCandidate
    <3>3. /\ req'[r].job = req[r].todo[1]
          /\ req'[r].pc = IF db[req[r].todo[1]].status = "running"
                          THEN "cancelFirst" ELSE "dequeue"
          /\ \A q \in Requests : q # r => req'[q] = req[q]
      <4>1. req \in [Requests -> RequestStates]
        BY <1>0
      <4> QED BY ONLY <2>2, <3>1, <3>2, <4>1, r \in Requests, VisitFacts
    <3> QED BY <1>0, <1>11, <3>3, RequestMoves DEF NextCandidate
  <2> QED BY <2>1, <2>2
<1> QED
  BY <1>1, <1>2, <1>3, <1>4, <1>5, <1>6, <1>7, <1>8, <1>9, <1>10, <1>11 DEF Handler

(* The worker goes on with its job, rewriting its row or not; the job      *)
(* stays unfinished.                                                       *)
LEMMA WorkerGoesOn ==
    ASSUME Typed, IInv, worker.pc # "idle", up,
           worker'.pc # "idle", worker'.job = worker.job,
           UNCHANGED <<born, queue, req, up>>,
           Rewritten(db, worker.job, db'),
           db'[worker.job].status \notin {"completed", "failed", "queued"}
             \/ db' = db
    PROVE  IInv'
<1> USE DEF IInv, Rewritten
<1>0. worker.job \in Jobs
  BY DEF Typed
<1> USE <1>0
<1>1. OneHandler' /\ DownIsEmpty'
  BY DEF OneHandler, DownIsEmpty
<1>2. OnlyBorn'
  BY DEF OnlyBorn
<1>3. ClaimsUnfinished'
  BY JobsAssumption DEF ClaimsUnfinished
<1>4. FlagsLeftQueue' /\ AssertExists'
  BY DEF FlagsLeftQueue, AssertExists, Typed, TypeOK
<1>5. SingleHolder'
  BY DEF SingleHolder
<1>6. NoLostJob'
  BY DEF NoLostJob, Live
<1>7. QueuedNotFlagged'
  BY DEF QueuedNotFlagged
<1> QED BY <1>1, <1>2, <1>3, <1>4, <1>5, <1>6, <1>7

(* The worker is done with its job, which is no longer live. *)
LEMMA WorkerLetsGo ==
    ASSUME Typed, IInv, worker.pc # "idle", up, worker' = IdleWorker,
           UNCHANGED <<born, queue, req, up>>,
           Rewritten(db, worker.job, db'),
           db'[worker.job].status \notin {"queued", "running"}
    PROVE  IInv'
<1> USE DEF IInv, Rewritten
<1>0. /\ worker.job \in Jobs /\ worker.job # NoJob
      /\ worker'.pc = "idle" /\ worker'.job = NoJob
      /\ \A k \in Jobs : k # NoJob
  BY IdleFacts, JobsAssumption DEF Typed
<1> USE <1>0
<1>1. OneHandler' /\ DownIsEmpty'
  BY DEF OneHandler, DownIsEmpty
<1>2. OnlyBorn'
  BY DEF OnlyBorn
<1>3. ClaimsUnfinished'
  <2>1. ASSUME NEW k \in Jobs,
               \/ Holds(queue, k)
               \/ \E r \in Requests : req[r].pc = "enqueue" /\ req[r].job = k
        PROVE  k # worker.job /\ db[k].status \notin {"completed", "failed"}
    BY <2>1 DEF ClaimsUnfinished, SingleHolder
  <2> QED BY <2>1 DEF ClaimsUnfinished
<1>4. FlagsLeftQueue' /\ AssertExists'
  BY DEF FlagsLeftQueue, AssertExists, Typed, TypeOK
<1>5. SingleHolder'
  BY DEF SingleHolder, Typed
<1>6. NoLostJob'
  <2>1. ASSUME NEW k \in Jobs, db'[k].status \in {"queued", "running"}
        PROVE  k # worker.job /\ Live(k)
    BY <2>1 DEF Live
  <2> QED BY <2>1 DEF NoLostJob, Live
<1>7. QueuedNotFlagged'
  BY DEF QueuedNotFlagged
<1> QED BY <1>1, <1>2, <1>3, <1>4, <1>5, <1>6, <1>7

(* Every step of the worker keeps the inductive invariant. *)
LEMMA WorkerKeepsIInv ==
    ASSUME Typed, IInv, Worker
    PROVE  IInv'
<1> USE DEF service, files, WAt
<1>0. /\ db \in [Jobs -> Rows] /\ worker \in WorkerStates /\ queue \in Seq(Jobs) /\ up
      /\ worker.pc # "idle" => worker.job \in Jobs
  BY DEF Typed, TypeOK, Worker, WDequeue, WLoad, WStart, WPrepare, WFit, WSave, MoreGroups,
     WTrainError, WDecide, WComplete, WCancel, WFail
<1>a. ASSUME NEW pc \in WorkerPCs \ {"idle"}, worker.pc # "idle", WGoto(pc),
             UNCHANGED <<db, queue, service>>
      PROVE  IInv'
  <2>1. worker'.pc # "idle" /\ worker'.job = worker.job
    BY <1>0, <1>a, WGotoFacts
  <2>2. Rewritten(db, worker.job, db')
    BY <1>0, <1>a DEF Rewritten
  <2> QED BY <1>0, <1>a, <2>1, <2>2, WorkerGoesOn
<1>b. ASSUME NEW g \in Groups, worker.pc # "idle",
             worker' = [worker EXCEPT !.pc = "fitting", !.group = g],
             UNCHANGED <<db, queue, service>>
      PROVE  IInv'
  <2>1. worker'.pc # "idle" /\ worker'.job = worker.job
    BY <1>0, <1>b, WGroupFacts
  <2>2. Rewritten(db, worker.job, db')
    BY <1>0, <1>b DEF Rewritten
  <2> QED BY <1>0, <1>b, <2>1, <2>2, WorkerGoesOn
<1>d. {"cancelling", "starting", "failing", "preparing", "saving", "deciding",
       "completing"} \subseteq WorkerPCs \ {"idle"}
  BY DEF WorkerPCs, TrainingPCs
<1>1. CASE WDequeue
  <2> DEFINE j == Oldest(queue)
  <2>1. 1 \in 1..Len(queue)
    BY <1>0, <1>1, EmptySeq, LenProperties DEF WDequeue, EmptyQueue
  <2>2. /\ queue' = Dequeue(queue) /\ UNCHANGED <<db, born, req, up>>
        /\ worker' = [pc |-> "loading", job |-> j, group |-> 0]
        /\ worker.pc = "idle" /\ worker.job = NoJob
    BY <1>1 DEF WDequeue, IInv, ClaimsUnfinished
  <2>3. worker'.pc = "loading" /\ worker'.job = j
    BY <2>2
  <2>4. j \in Jobs /\ Holds(queue, j) /\ j # NoJob
    BY <1>0, <2>1, ElementOfSeq, JobsAssumption DEF Oldest, Holds
  <2>5. /\ \A k : Holds(queue', k) => Holds(queue, k)
        /\ \A k : Holds(queue, k) /\ k # j => Holds(queue', k)
        /\ Distinct(queue') /\ ~Holds(queue', j)
    BY <1>0, <2>1, <2>2, DropFacts DEF Dequeue, Oldest, IInv, SingleHolder
  <2> HIDE DEF j
  <2> USE <1>0, <2>2, <2>3, <2>4, <2>5 DEF IInv
  <2>6. OneHandler' /\ DownIsEmpty'
    BY DEF OneHandler, DownIsEmpty
  <2>7. OnlyBorn'
    BY DEF OnlyBorn, Exists
  <2>8. ClaimsUnfinished'
    BY DEF ClaimsUnfinished
  <2>9. FlagsLeftQueue' /\ AssertExists'
    BY DEF FlagsLeftQueue, AssertExists, Exists
  <2>10. SingleHolder'
    BY DEF SingleHolder
  <2>11. NoLostJob'
    <3> SUFFICES ASSUME NEW k \in Jobs, up, Live(k), ~Holds(queue', k), worker'.job # k
                 PROVE  \E r \in Requests : req[r].job = k
                          /\ req[r].pc \in {"enqueue", "removeFiles", "deleteRow"}
      BY <1>1 DEF NoLostJob, Live, WDequeue
    <3>1. ~Holds(queue, k) /\ worker.job # k
      BY JobsAssumption
    <3> QED BY <3>1 DEF NoLostJob
  <2>12. QueuedNotFlagged'
    BY DEF QueuedNotFlagged
  <2> QED BY <2>6, <2>7, <2>8, <2>9, <2>10, <2>11, <2>12
<1>2. CASE WLoad
  <2>1. CASE WGoto("cancelling") \/ WGoto("starting")
    BY <1>2, <1>a, <1>d, <2>1 DEF WLoad
  <2>2. CASE worker' = IdleWorker /\ (~Exists(db, worker.job) \/ db[worker.job].status = "cancelled")
    <3>1. Rewritten(db, worker.job, db')
      BY <1>0, <1>2 DEF Rewritten, WLoad
    <3>2. db'[worker.job].status \notin {"queued", "running"}
      BY <1>2, <2>2 DEF WLoad, Exists, Statuses
    <3> QED BY <1>0, <1>2, <2>2, <3>1, <3>2, WorkerLetsGo DEF WLoad
  <2> QED BY <1>2, <2>1, <2>2 DEF WLoad
<1>3. CASE WStart
  <2>1. /\ worker.job \in Jobs /\ db' = UpdateJobStatus(db, worker.job, "running")
        /\ WGoto("preparing") \/ WGoto("failing")
    BY <1>0, <1>3 DEF WStart
  <2>2. worker'.pc # "idle" /\ worker'.job = worker.job
    BY <1>0, <1>d, <2>1, WGotoFacts
  <2>3. Rewritten(db, worker.job, db')
    BY <1>0, <2>1, StoreFacts
  <2>4. db'[worker.job].status \notin {"completed", "failed", "queued"} \/ db' = db
    <3>1. CASE Exists(db, worker.job)
      <4>1. UpdateJobStatus(db, worker.job, "running")[worker.job]
              = [status |-> "running", cancel |-> db[worker.job].cancel]
        BY <1>0, <2>1, <3>1, RowFacts
      <4> QED BY <2>1, <4>1
    <3>2. CASE ~Exists(db, worker.job)
      BY <2>3, <3>2 DEF Rewritten
    <3> QED BY <3>1, <3>2
  <2> QED BY <1>0, <1>3, <2>2, <2>3, <2>4, WorkerGoesOn DEF WStart
<1>4. CASE WPrepare
  <2>1. CASE CancelSeen
    BY <1>4, <1>a, <1>d, <2>1 DEF WPrepare
  <2>2. CASE ~CancelSeen
    <3>1. 1 \in Groups
      BY GroupsAssumption DEF Groups
    <3> QED BY <1>4, <1>b, <2>2, <3>1 DEF WPrepare
  <2> QED BY <2>1, <2>2
<1>5. CASE WFit
  <2>1. WGoto("cancelling") \/ WGoto("saving")
    BY <1>5 DEF WFit
  <2> QED BY <1>5, <1>a, <1>d, <2>1 DEF WFit
<1>6. CASE WSave
  <2>1. CASE worker.group < NumGroups
    <3>1. worker.group + 1 \in Groups
      BY <1>6, <2>1, GroupsAssumption DEF WSave, MoreGroups, Typed, Groups
    <3> QED BY <1>6, <1>b, <2>1, <3>1 DEF WSave, MoreGroups
  <2>2. CASE ~(worker.group < NumGroups)
    BY <1>6, <1>a, <1>d, <2>2 DEF WSave, MoreGroups
  <2> QED BY <2>1, <2>2
<1>7. CASE WTrainError
  BY <1>7, <1>a, <1>d DEF WTrainError
<1>8. CASE WDecide
  <2>1. WGoto("cancelling") \/ WGoto("completing")
    BY <1>8 DEF WDecide
  <2> QED BY <1>8, <1>a, <1>d, <2>1 DEF WDecide
<1>c. ASSUME worker.pc # "idle",
             \/ db' = MarkJobCompleted(db, worker.job)
             \/ db' = MarkJobCancelled(db, worker.job)
             \/ db' = MarkJobFailed(db, worker.job)
      PROVE  /\ Rewritten(db, worker.job, db')
             /\ db'[worker.job].status \notin {"queued", "running"}
  <2>1. Rewritten(db, worker.job, db')
    BY <1>0, <1>c, StoreFacts
  <2>2. CASE Exists(db, worker.job)
    <3>1. /\ MarkJobCompleted(db, worker.job)[worker.job].status = "completed"
          /\ MarkJobCancelled(db, worker.job)[worker.job].status = "cancelled"
          /\ MarkJobFailed(db, worker.job)[worker.job].status = "failed"
      <4>1. worker.job \in Jobs
        BY <1>0, <1>c
      <4>2. /\ MarkJobCompleted(db, worker.job)[worker.job]
                 = [status |-> "completed", cancel |-> db[worker.job].cancel]
            /\ MarkJobFailed(db, worker.job)[worker.job]
                 = [status |-> "failed", cancel |-> db[worker.job].cancel]
            /\ MarkJobCancelled(db, worker.job)[worker.job]
                 = [status |-> "cancelled", cancel |-> TRUE]
        BY <1>0, <2>2, <4>1, RowFacts
      <4> QED BY <4>2
    <3> QED BY <1>c, <2>1, <3>1
  <2>3. CASE ~Exists(db, worker.job)
    BY <2>1, <2>3 DEF Rewritten, Exists, Statuses
  <2> QED BY <2>1, <2>2, <2>3
<1>9. CASE WComplete
  BY <1>0, <1>9, <1>c, WorkerLetsGo DEF WComplete
<1>10. CASE WCancel
  BY <1>0, <1>10, <1>c, WorkerLetsGo DEF WCancel
<1>11. CASE WFail
  BY <1>0, <1>11, <1>c, WorkerLetsGo DEF WFail
<1> QED
  BY <1>1, <1>2, <1>3, <1>4, <1>5, <1>6, <1>7, <1>8, <1>9, <1>10, <1>11 DEF Worker

(* Crashes and restarts keep the inductive invariant. *)
LEMMA ProcessKeepsIInv ==
    ASSUME Typed, IInv, Crash \/ Boot
    PROVE  IInv'
<1> USE DEF storage
<1>1. CASE Crash
  <2>1. /\ queue' = << >> /\ worker' = IdleWorker /\ ~up'
        /\ \A r \in Requests : req'[r].pc = "idle"
        /\ UNCHANGED <<db, born>>
        /\ worker'.pc = "idle" /\ worker'.job = NoJob
    BY <1>1, IdleFacts DEF Crash, EmptyQueue
  <2>2. /\ \A j : ~Holds(queue', j)
        /\ Distinct(queue')
    BY <2>1 DEF Holds, Distinct
  <2> USE <2>1, <2>2 DEF IInv
  <2>3. OneHandler' /\ DownIsEmpty'
    BY DEF OneHandler, DownIsEmpty, LoopFree
  <2>4. OnlyBorn'
    BY JobsAssumption DEF OnlyBorn, Exists
  <2>5. ClaimsUnfinished'
    BY JobsAssumption DEF ClaimsUnfinished
  <2>6. FlagsLeftQueue' /\ AssertExists' /\ SingleHolder' /\ NoLostJob'
    BY DEF FlagsLeftQueue, AssertExists, SingleHolder, NoLostJob
  <2>7. QueuedNotFlagged'
    BY DEF QueuedNotFlagged
  <2> QED BY <2>3, <2>4, <2>5, <2>6, <2>7
<1>2. CASE Boot
  <2>1. /\ worker = IdleWorker /\ \A r \in Requests : req[r].pc = "idle"
        /\ UNCHANGED <<db, born, worker, req>>
        /\ worker.pc = "idle" /\ worker.job = NoJob
    BY <1>2, IdleFacts DEF Boot, IInv, DownIsEmpty, LoopFree
  <2> DEFINE Q == WithStatus(db, "queued")
             R == WithStatus(db, "running")
  <2>2. /\ Q \in SUBSET Jobs /\ R \in SUBSET Jobs
        /\ \A j \in Jobs : j \in Q <=> db[j].status = "queued"
        /\ \A j \in Jobs : j \in R <=> db[j].status = "running"
    BY DEF WithStatus, Typed, TypeOK
  <2>3. PICK waiting \in ByCreation(Q), interrupted \in ByCreation(R) :
            queue' = waiting \o interrupted
    BY <1>2 DEF Boot
  <2> HIDE DEF Q, R
  <2>4. /\ waiting \in Seq(Jobs) /\ Distinct(waiting)
        /\ interrupted \in Seq(Jobs) /\ Distinct(interrupted)
        /\ \A j : Holds(waiting, j) <=> j \in Q
        /\ \A j : Holds(interrupted, j) <=> j \in R
    BY <2>2, ListingFacts
  <2>5. \A j : ~(Holds(waiting, j) /\ Holds(interrupted, j))
    BY <2>2, <2>4
  <2>6. /\ Distinct(queue')
        /\ \A j : Holds(queue', j) <=> Holds(waiting, j) \/ Holds(interrupted, j)
    BY <2>3, <2>4, <2>5, JoinFacts
  <2>7. /\ \A j \in Jobs : Holds(queue', j) <=> Live(j)
        /\ \A j : Holds(queue', j) => j \in Jobs
    BY <2>2, <2>4, <2>6 DEF Live
  <2> USE <2>1, <2>6, <2>7, <1>2 DEF IInv, Boot
  <2>8. OneHandler' /\ DownIsEmpty'
    BY DEF OneHandler, DownIsEmpty
  <2>9. OnlyBorn'
    BY JobsAssumption DEF OnlyBorn, Exists, Live, Statuses
  <2>10. ClaimsUnfinished'
    BY JobsAssumption DEF ClaimsUnfinished, Live
  <2>11. FlagsLeftQueue' /\ AssertExists' /\ SingleHolder'
    BY JobsAssumption DEF FlagsLeftQueue, AssertExists, SingleHolder
  <2>12. NoLostJob'
    BY DEF NoLostJob, Live
  <2>13. QueuedNotFlagged'
    BY DEF QueuedNotFlagged
  <2> QED BY <2>8, <2>9, <2>10, <2>11, <2>12, <2>13
<1> QED BY <1>1, <1>2

(* The service starts in a state of the inductive invariant. *)
LEMMA InitIInv == Init => IInv
<1> SUFFICES ASSUME Init PROVE IInv
  OBVIOUS
<1>1. /\ \A r \in Requests : req[r].pc = "idle"
      /\ worker.pc = "idle" /\ worker.job = NoJob /\ queue = << >> /\ up
      /\ \A j \in Jobs : db[j].status = "absent" /\ ~Exists(db, j) /\ j # NoJob
  BY IdleFacts, JobsAssumption DEF Init, EmptyQueue, NoRow, Exists, Statuses
<1>2. (\A j : ~Holds(queue, j)) /\ Distinct(queue)
  BY <1>1 DEF Holds, Distinct
<1>3. OneHandler /\ DownIsEmpty /\ OnlyBorn
  BY <1>1, <1>2 DEF OneHandler, DownIsEmpty, OnlyBorn
<1>4. ClaimsUnfinished /\ FlagsLeftQueue /\ SingleHolder
  BY <1>1, <1>2 DEF ClaimsUnfinished, FlagsLeftQueue, SingleHolder
<1>5. NoLostJob /\ AssertExists /\ QueuedNotFlagged
  BY <1>1 DEF NoLostJob, AssertExists, QueuedNotFlagged, Live
<1> QED BY <1>3, <1>4, <1>5 DEF IInv

(* No step leaves it. *)
LEMMA Inductive == Typed /\ IInv /\ [Next]_vars => IInv'
<1> SUFFICES ASSUME Typed, IInv, [Next]_vars PROVE IInv'
  OBVIOUS
<1>1. CASE UNCHANGED vars
  BY <1>1 DEF vars, IInv, OneHandler, DownIsEmpty, LoopFree, OnlyBorn, ClaimsUnfinished,
     FlagsLeftQueue, SingleHolder, NoLostJob, Live, AssertExists, QueuedNotFlagged, Exists
<1> QED
  BY <1>1, AcceptKeepsIInv, HandlerKeepsIInv, WorkerKeepsIInv, ProcessKeepsIInv DEF Next

(* So it always holds. *)
LEMMA Invariant == Spec => [](Typed /\ IInv)
<1>1. Init /\ [][Next]_vars /\ []Typed => []IInv
  BY InitIInv, Inductive, PTL
<1> QED BY <1>1, TypedInvariant, PTL DEF Spec

-----------------------------------------------------------------------------
(* The safety properties, for every value of the constants.                *)

(* Queue, worker and creator never hold the same job twice. *)
THEOREM SingleHolderHolds == Spec => []SingleHolder
<1>1. IInv => SingleHolder
  BY DEF IInv
<1> QED BY <1>1, Invariant, PTL

(* No queued or running job is stranded while the process runs. *)
THEOREM NoJobIsLost == Spec => []NoLostJob
<1>1. IInv => NoLostJob
  BY DEF IInv
<1> QED BY <1>1, Invariant, PTL

(* The assertions of request_cancel_job never fail. *)
THEOREM AssertionsHold == Spec => []AssertExists
<1>1. IInv => AssertExists
  BY DEF IInv
<1> QED BY <1>1, Invariant, PTL

(* The branch of _process_job for a flagged queued row is dead. *)
THEOREM QueuedIsNotFlagged == Spec => []QueuedNotFlagged
<1>1. IInv => QueuedNotFlagged
  BY DEF IInv
<1> QED BY <1>1, Invariant, PTL

(* What every step does to the rows: only WStart makes one running, and    *)
(* only of the job the worker holds; only InsertRow makes one appear.      *)
LEMMA RowSteps ==
    ASSUME Typed, IInv, [Next]_vars, NEW j \in Jobs
    PROVE  /\ db[j].status \in {"completed", "failed"} => db'[j].status # "running"
           /\ born[j] # 0 /\ ~Exists(db, j) => ~Exists(db', j)
<1>0. db \in [Jobs -> Rows]
  BY DEF Typed, TypeOK
<1> DEFINE Goal == /\ db[j].status \in {"completed", "failed"} => db'[j].status # "running"
                   /\ born[j] # 0 /\ ~Exists(db, j) => ~Exists(db', j)
<1>1. CASE db' = db
  BY <1>1
<1>a. ASSUME NEW i \in Jobs, Rewritten(db, i, db'),
             Exists(db, i) => \/ db'[i].status \in {"completed", "failed", "cancelled"}
                              \/ db'[i].status = db[i].status
      PROVE  Goal
  BY <1>a DEF Rewritten, Exists, Statuses
<1>2. ASSUME NEW r \in Requests, Handler(r) PROVE Goal
  <2> DEFINE i == req[r].job
  <2>0. i \in Jobs
    BY <1>2 DEF Typed, Handler, At, InsertRow, EnqueueJob, CancelQueued, CancelRunning,
       CancelFirst, AwaitStopped, AwaitTimeout, DequeueDeleted, RemoveFiles, DeleteRow,
       NextCandidate
  <2> HIDE DEF i
  <2>1. CASE db' = CreateJob(db, i) /\ born[i] = 0
    <3>1. /\ db'[i] = [status |-> "queued", cancel |-> FALSE]
          /\ \A k \in Jobs : k # i => db'[k] = db[k]
      BY <1>0, <2>0, <2>1, CreateFacts
    <3> QED BY <2>1, <3>1 DEF Exists
  <2>2. CASE db' = MarkJobCancelled(db, i)
    <3>1. Exists(db, i) => db'[i].status = "cancelled"
      <4>1. Exists(db, i) => MarkJobCancelled(db, i)[i]
                               = [status |-> "cancelled", cancel |-> TRUE]
        BY <1>0, <2>0, RowFacts
      <4> QED BY <2>2, <4>1
    <3> QED BY <1>0, <1>a, <2>0, <2>2, <3>1, StoreFacts
  <2>3. CASE db' = SetCancelRequested(db, i)
    <3>1. Exists(db, i) => db'[i].status = db[i].status
      <4>1. Exists(db, i) => SetCancelRequested(db, i)[i]
                               = [status |-> db[i].status, cancel |-> TRUE]
        BY <1>0, <2>0, RowFacts
      <4> QED BY <2>3, <4>1
    <3> QED BY <1>0, <1>a, <2>0, <2>3, <3>1, StoreFacts
  <2>4. CASE db' = DeleteJobById(db, i)
    <3>1. /\ db'[i].status = "absent" /\ ~Exists(db', i)
          /\ \A k \in Jobs : k # i => db'[k] = db[k]
      BY <1>0, <2>0, <2>4, CreateFacts DEF NoRow
    <3> QED BY <3>1 DEF Exists
  <2> QED
    BY <1>1, <1>2, <2>1, <2>2, <2>3, <2>4
       DEF i, Handler, At, InsertRow, EnqueueJob, CancelQueued, CancelRunning,
       CancelFirst, AwaitStopped, AwaitTimeout, DequeueDeleted, RemoveFiles, DeleteRow,
       NextCandidate, IInv, OnlyBorn
<1>3. CASE Worker
  <2> DEFINE i == worker.job
  <2>1. CASE WStart
    <3>1. /\ i \in Jobs /\ db' = UpdateJobStatus(db, i, "running")
          /\ db[i].status \notin {"completed", "failed"}
      BY <2>1 DEF WStart, WAt, Typed, IInv, ClaimsUnfinished
    <3>2. Rewritten(db, i, db')
      BY <1>0, <3>1, StoreFacts
    <3> QED BY <3>1, <3>2 DEF Rewritten
  <2>2. CASE WComplete \/ WCancel \/ WFail
    <3>1. /\ i \in Jobs
          /\ db' \in {MarkJobCompleted(db, i), MarkJobCancelled(db, i), MarkJobFailed(db, i)}
      BY <2>2 DEF WComplete, WCancel, WFail, WAt, Typed
    <3>2. Rewritten(db, i, db')
      BY <1>0, <3>1, StoreFacts
    <3>3. Exists(db, i) =>
            /\ MarkJobCompleted(db, i)[i] = [status |-> "completed", cancel |-> db[i].cancel]
            /\ MarkJobFailed(db, i)[i] = [status |-> "failed", cancel |-> db[i].cancel]
            /\ MarkJobCancelled(db, i)[i] = [status |-> "cancelled", cancel |-> TRUE]
      BY <1>0, <3>1, RowFacts
    <3>4. Exists(db, i) => db'[i].status \in {"completed", "failed", "cancelled"}
      BY <3>1, <3>3
    <3> QED BY <1>a, <3>1, <3>2, <3>4
  <2> QED
    BY <1>1, <1>3, <2>1, <2>2 DEF Worker, WDequeue, WLoad, WPrepare, WFit, WSave, MoreGroups,
       WTrainError, WDecide
<1> QED
  BY <1>1, <1>2, <1>3 DEF Next, Accept, Create, BatchDelete, Cancel, Delete, Crash, Boot,
     storage, vars

(* A completed or failed job is never run again, restarts included. *)
THEOREM FinishedNotRerun == Spec => TerminalNotRerun
<1>1. Typed /\ IInv /\ [Next]_vars =>
        [\A j \in Jobs : db[j].status \in {"completed", "failed"} =>
            db'[j].status # "running"]_vars
  BY RowSteps
<1> QED BY <1>1, Invariant, PTL DEF Spec, TerminalNotRerun

(* A deleted job never comes back. *)
THEOREM DeletedStaysDeleted == Spec => NoResurrection
<1>1. Typed /\ IInv /\ [Next]_vars =>
        [\A j \in Jobs : born[j] # 0 /\ ~Exists(db, j) => ~Exists(db', j)]_vars
  BY RowSteps
<1> QED BY <1>1, Invariant, PTL DEF Spec, NoResurrection
-----------------------------------------------------------------------------
(* The models of completed jobs.                                           *)

(* A row that exists and did not before is that of an id without a past. *)
LEMMA RowsOnlyInserted ==
    ASSUME Typed, IInv, [Next]_vars, NEW j \in Jobs, Exists(db', j)
    PROVE  /\ worker.job = j => Exists(db, j)
           /\ born' = born => Exists(db, j)
<1>1. IInv'
  BY Inductive
<1>2. born'[j] # 0
  BY <1>1 DEF IInv, OnlyBorn, Exists
<1>3. worker.job = j => born[j] # 0
  BY DEF IInv, OnlyBorn
<1> QED BY <1>2, <1>3, RowSteps

(* A deletion has removed the files of j and is about to delete its row. *)
FilesGone(j) == \E r \in Requests : req[r].pc = "deleteRow" /\ req[r].job = j

(* What the worker has written so far for the job it trains. *)
TrainedSoFar(j) ==
    /\ worker.pc \in {"fitting", "saving"} =>
          outputDir[j] /\ 1..(worker.group - 1) \subseteq models[j]
    /\ worker.pc \in {"deciding", "completing"} => outputDir[j] /\ models[j] = Groups

(* Only a deletion that is about to delete the row takes from what was     *)
(* trained, of the job in training as of one that is completed.            *)
ModelsKept ==
    /\ \A j \in Jobs : worker.job = j /\ Exists(db, j) => TrainedSoFar(j) \/ FilesGone(j)
    /\ \A j \in Jobs : db[j].status = "completed" =>
          (models[j] = Groups /\ outputDir[j]) \/ FilesGone(j)

(* A step of a request that completes no job and takes no files without    *)
(* going on to delete the row.                                             *)
LEMMA RequestKeepsModels ==
    ASSUME Typed, IInv, ModelsKept, [Next]_vars, UNCHANGED worker,
           \A j \in Jobs : db'[j].status = "completed" => db[j].status = "completed",
           \A j \in Jobs :
              \/ ~Exists(db', j)
              \/ FilesGone(j)'
              \/ /\ ~FilesGone(j) /\ models'[j] = models[j]
                 /\ outputDir[j] => outputDir'[j]
    PROVE  ModelsKept'
<1>1. ASSUME NEW j \in Jobs, worker'.job = j, Exists(db', j)
      PROVE  TrainedSoFar(j)' \/ FilesGone(j)'
  <2>1. Exists(db, j)
    BY <1>1, RowsOnlyInserted
  <2> QED BY <1>1, <2>1 DEF ModelsKept, TrainedSoFar
<1>2. ASSUME NEW j \in Jobs, db'[j].status = "completed"
      PROVE  (models'[j] = Groups /\ outputDir'[j]) \/ FilesGone(j)'
  <2>1. Exists(db', j)
    BY <1>2 DEF Exists, Statuses
  <2> QED BY <1>2, <2>1 DEF ModelsKept
<1>3. \A j \in Jobs : Exists(db, j)' <=> Exists(db', j)
  BY DEF Exists
<1> QED BY <1>1, <1>2, <1>3 DEF ModelsKept

LEMMA HandlerKeepsModels ==
    ASSUME Typed, IInv, ModelsKept, NEW r \in Requests, Handler(r)
    PROVE  ModelsKept'
<1> DEFINE i == req[r].job
<1> USE DEF storage, process, At
<1>0. /\ req \in [Requests -> RequestStates] /\ db \in [Jobs -> Rows]
      /\ models \in [Jobs -> SUBSET Groups] /\ outputDir \in [Jobs -> BOOLEAN]
      /\ \A q \in Requests : q # r => req[q].pc = "idle"
      /\ req[r].pc # "idle" /\ i \in Jobs
  <2>1. req[r].pc # "idle"
    BY DEF Handler, InsertRow, EnqueueJob, CancelQueued, CancelRunning,
       CancelFirst, AwaitStopped, AwaitTimeout, DequeueDeleted, RemoveFiles, DeleteRow,
       NextCandidate
  <2> QED BY <2>1, Alone DEF Typed, TypeOK
<1>1. [Next]_vars
  BY DEF Next
<1>2. \A j \in Jobs : FilesGone(j) => req[r].pc = "deleteRow" /\ i = j
  BY <1>0 DEF FilesGone
<1> HIDE DEF i
<1>3. CASE RemoveFiles(r)
  <2>1. /\ Goto(r, "deleteRow") /\ UNCHANGED <<db, worker>> /\ req[r].pc = "removeFiles"
        /\ outputDir' = [outputDir EXCEPT ![i] = FALSE]
        /\ models' = [models EXCEPT ![i] = {}]
    BY <1>3 DEF RemoveFiles, i
  <2>2. req'[r].pc = "deleteRow" /\ req'[r].job = i
    BY <1>0, <2>1, GotoFacts DEF RequestPCs, i
  <2>3. \A j \in Jobs : j # i =>
           /\ ~FilesGone(j) /\ models'[j] = models[j]
           /\ outputDir[j] => outputDir'[j]
    BY <1>0, <1>2, <2>1
  <2>4. \A j \in Jobs : j = i => FilesGone(j)'
    BY <2>2 DEF FilesGone
  <2> QED BY <1>1, <2>1, <2>3, <2>4, RequestKeepsModels
<1>4. CASE DeleteRow(r)
  <2>1. db' = DeleteJobById(db, i) /\ UNCHANGED <<models, outputDir, worker>>
    BY <1>4 DEF DeleteRow, i
  <2>2. /\ ~Exists(db', i) /\ db'[i] = NoRow
        /\ \A j \in Jobs : j # i => db'[j] = db[j]
    BY <1>0, <2>1, CreateFacts
  <2>3. \A j \in Jobs : db'[j].status = "completed" => db[j].status = "completed"
    BY <2>2 DEF NoRow
  <2> QED BY <1>1, <1>2, <2>1, <2>2, <2>3, RequestKeepsModels
<1>5. ASSUME req[r].pc # "deleteRow", UNCHANGED <<models, outputDir, worker>>,
             \A j \in Jobs : db'[j].status = "completed" => db[j].status = "completed"
      PROVE  ModelsKept'
  BY <1>1, <1>2, <1>5, RequestKeepsModels
<1>6. CASE InsertRow(r)
  <2>1. /\ db' = CreateJob(db, i) /\ req[r].pc = "insert"
        /\ UNCHANGED <<models, outputDir, worker>>
    BY <1>6 DEF InsertRow, i
  <2>2. /\ db'[i] = [status |-> "queued", cancel |-> FALSE]
        /\ \A j \in Jobs : j # i => db'[j] = db[j]
    BY <1>0, <2>1, CreateFacts
  <2>3. \A j \in Jobs : db'[j].status = "completed" => db[j].status = "completed"
    BY <2>2
  <2> QED BY <1>5, <2>1, <2>3
<1>7. CASE CancelQueued(r)
  <2>1. /\ db' = MarkJobCancelled(db, i) /\ req[r].pc = "markCancelled"
        /\ UNCHANGED <<models, outputDir, worker>>
    BY <1>7 DEF CancelQueued, i
  <2>2. Rewritten(db, i, db')
    BY <1>0, <2>1, StoreFacts
  <2>3. Exists(db, i) => db'[i] = [status |-> "cancelled", cancel |-> TRUE]
    BY <1>0, <2>1, RowFacts
  <2>4. \A j \in Jobs : db'[j].status = "completed" => db[j].status = "completed"
    BY <2>2, <2>3 DEF Rewritten
  <2> QED BY <1>5, <2>1, <2>4
<1>8. CASE CancelRunning(r) \/ CancelFirst(r)
  <2>1. /\ db' = SetCancelRequested(db, i) /\ req[r].pc # "deleteRow"
        /\ UNCHANGED <<models, outputDir, worker>>
    BY <1>8 DEF CancelRunning, CancelFirst, i
  <2>2. Rewritten(db, i, db')
    BY <1>0, <2>1, StoreFacts
  <2>3. Exists(db, i) => db'[i] = [status |-> db[i].status, cancel |-> TRUE]
    BY <1>0, <2>1, RowFacts
  <2>4. \A j \in Jobs : db'[j].status = "completed" => db[j].status = "completed"
    BY <2>2, <2>3 DEF Rewritten
  <2> QED BY <1>5, <2>1, <2>4
<1>9. CASE \/ EnqueueJob(r) \/ AwaitStopped(r) \/ AwaitTimeout(r) \/ DequeueDeleted(r)
           \/ NextCandidate(r)
  <2>1. req[r].pc # "deleteRow" /\ UNCHANGED <<db, models, outputDir, worker>>
    BY <1>9 DEF EnqueueJob, AwaitStopped, AwaitTimeout, DequeueDeleted, NextCandidate
  <2> QED BY <1>5, <2>1
<1> QED BY <1>3, <1>4, <1>6, <1>7, <1>8, <1>9 DEF Handler

(* A step of the worker takes nothing from what was saved, and completes   *)
(* no job but its own, when it has saved the last group.                   *)
LEMMA WorkerKeepsModels ==
    ASSUME Typed, IInv, ModelsKept, Worker
    PROVE  ModelsKept'
<1> DEFINE i == worker.job
<1> USE DEF service, files, WAt
<1>0. /\ worker \in WorkerStates /\ db \in [Jobs -> Rows]
      /\ models \in [Jobs -> SUBSET Groups] /\ outputDir \in [Jobs -> BOOLEAN]
      /\ models' \in [Jobs -> SUBSET Groups]
  BY WorkerTyped DEF Typed, TypeOK
<1>1. [Next]_vars /\ UNCHANGED req
  BY DEF Next, Worker, WDequeue, WLoad, WStart, WPrepare, WFit, WSave, WTrainError, WDecide,
     WComplete, WCancel, WFail
<1>2. \A j \in Jobs : FilesGone(j)' <=> FilesGone(j)
  BY <1>1 DEF FilesGone
<1>a. ASSUME \A j \in Jobs : db'[j].status = "completed" =>
                \/ db[j].status = "completed"
                \/ (models[j] = Groups /\ outputDir[j]) \/ FilesGone(j),
             \A j \in Jobs : models[j] \subseteq models'[j] /\ (outputDir[j] => outputDir'[j]),
             \A j \in Jobs : worker'.job = j =>
                TrainedSoFar(j)' \/ (worker.job = j /\ ~TrainedSoFar(j))
      PROVE  ModelsKept'
  <2>1. ASSUME NEW j \in Jobs, worker'.job = j, Exists(db', j)
        PROVE  TrainedSoFar(j)' \/ FilesGone(j)'
    BY <1>1, <1>2, <1>a, <2>1, RowsOnlyInserted DEF ModelsKept
  <2>2. ASSUME NEW j \in Jobs, db'[j].status = "completed"
        PROVE  (models'[j] = Groups /\ outputDir'[j]) \/ FilesGone(j)'
    <3>1. models'[j] \subseteq Groups
      BY <1>0
    <3>2. models[j] = Groups /\ outputDir[j] => models'[j] = Groups /\ outputDir'[j]
      BY <1>a, <3>1
    <3> QED BY <1>2, <1>a, <2>2, <3>2 DEF ModelsKept
  <2>3. \A j \in Jobs : Exists(db, j)' <=> Exists(db', j)
    BY DEF Exists
  <2> QED BY <2>1, <2>2, <2>3 DEF ModelsKept
<1> DEFINE Writing == {"fitting", "saving", "deciding", "completing"}
<1>b. ASSUME worker'.pc \notin Writing PROVE \A j \in Jobs : TrainedSoFar(j)'
  BY <1>b DEF TrainedSoFar
<1>c. ASSUME UNCHANGED files
      PROVE  \A j \in Jobs : models[j] \subseteq models'[j] /\ (outputDir[j] => outputDir'[j])
  BY <1>c
<1>d. IdleWorker.pc \notin Writing
  BY IdleFacts
<1>3. CASE WDequeue \/ WLoad \/ WTrainError
  <2>1. worker'.pc \notin Writing /\ UNCHANGED <<db, models, outputDir>>
    BY <1>0, <1>3, <1>d, WGotoFacts DEF WDequeue, WLoad, WTrainError, WorkerPCs
  <2> QED BY <1>a, <1>b, <1>c, <2>1
<1>4. CASE WStart
  <2>1. worker'.pc \notin Writing /\ UNCHANGED <<models, outputDir>>
    BY <1>0, <1>4, WGotoFacts DEF WStart, WorkerPCs, TrainingPCs
  <2>2. i \in Jobs /\ db' = UpdateJobStatus(db, i, "running")
    BY <1>4 DEF WStart, Typed
  <2>3. Rewritten(db, i, db')
    BY <1>0, <2>2, StoreFacts
  <2>4. Exists(db, i) => db'[i] = [status |-> "running", cancel |-> db[i].cancel]
    BY <1>0, <2>2, RowFacts
  <2>5. \A j \in Jobs : db'[j].status = "completed" => db[j].status = "completed"
    BY <2>3, <2>4 DEF Rewritten
  <2> QED BY <1>a, <1>b, <1>c, <2>1, <2>5
<1>5. CASE WCancel \/ WFail
  <2>1. worker'.pc \notin Writing /\ UNCHANGED <<models, outputDir>>
    BY <1>5, <1>d DEF WCancel, WFail
  <2>2. i \in Jobs /\ db' \in {MarkJobCancelled(db, i), MarkJobFailed(db, i)}
    BY <1>5 DEF WCancel, WFail, Typed
  <2>3. Rewritten(db, i, db')
    BY <1>0, <2>2, StoreFacts
  <2>4. Exists(db, i) =>
          /\ MarkJobFailed(db, i)[i] = [status |-> "failed", cancel |-> db[i].cancel]
          /\ MarkJobCancelled(db, i)[i] = [status |-> "cancelled", cancel |-> TRUE]
    BY <1>0, <2>2, RowFacts
  <2>5. Exists(db, i) => db'[i].status # "completed"
    BY <2>2, <2>4
  <2>6. \A j \in Jobs : db'[j].status = "completed" => db[j].status = "completed"
    BY <2>3, <2>5 DEF Rewritten
  <2> QED BY <1>a, <1>b, <1>c, <2>1, <2>6
<1>6. CASE WComplete
  <2>1. worker'.pc \notin Writing /\ UNCHANGED <<models, outputDir>>
    BY <1>6, <1>d DEF WComplete
  <2>2. i \in Jobs /\ worker.pc = "completing" /\ db' = MarkJobCompleted(db, i)
    BY <1>6 DEF WComplete, Typed
  <2>3. Rewritten(db, i, db')
    BY <1>0, <2>2, StoreFacts
  <2>4. Exists(db, i) => (models[i] = Groups /\ outputDir[i]) \/ FilesGone(i)
    BY <2>2 DEF ModelsKept, TrainedSoFar
  <2>5. \A j \in Jobs : db'[j].status = "completed" =>
           \/ db[j].status = "completed"
           \/ (models[j] = Groups /\ outputDir[j]) \/ FilesGone(j)
    BY <2>3, <2>4 DEF Rewritten
  <2> QED BY <1>a, <1>b, <1>c, <2>1, <2>5
<1>7. CASE WPrepare
  <2>1. /\ i \in Jobs /\ UNCHANGED <<db, models>>
        /\ outputDir' = [outputDir EXCEPT ![i] = TRUE]
    BY <1>7 DEF WPrepare, Typed
  <2>2. outputDir'[i] /\ \A j \in Jobs : outputDir[j] => outputDir'[j]
    BY <1>0, <2>1
  <2>3. CASE CancelSeen
    <3>1. worker'.pc \notin Writing
      BY <1>0, <1>7, <2>3, WGotoFacts DEF WPrepare, WorkerPCs
    <3> QED BY <1>a, <1>b, <2>1, <2>2, <3>1
  <2>4. CASE ~CancelSeen
    <3>1. 1 \in Groups /\ worker' = [worker EXCEPT !.pc = "fitting", !.group = 1]
      BY <1>7, <2>4, GroupsAssumption DEF Groups, WPrepare
    <3>2. worker'.pc = "fitting" /\ worker'.job = i /\ worker'.group = 1
      BY <1>0, <3>1, WGroupFacts
    <3>3. \A j \in Jobs : worker'.job = j => TrainedSoFar(j)'
      BY <2>2, <3>2 DEF TrainedSoFar
    <3> QED BY <1>a, <2>1, <2>2, <3>3
  <2> QED BY <2>3, <2>4
<1>8. CASE WFit \/ WDecide
  <2>1. UNCHANGED <<db, models, outputDir>>
    BY <1>8 DEF WFit, WDecide
  <2>2. \/ worker'.pc \notin Writing
        \/ /\ worker'.job = i /\ worker'.group = worker.group
           /\ \/ worker.pc = "fitting" /\ worker'.pc = "saving"
              \/ worker.pc = "deciding" /\ worker'.pc = "completing"
    BY <1>0, <1>8, WGotoFacts DEF WFit, WDecide, WorkerPCs, TrainingPCs
  <2>3. \A j \in Jobs : worker'.job = j =>
           TrainedSoFar(j)' \/ (worker.job = j /\ ~TrainedSoFar(j))
    BY <2>1, <2>2 DEF TrainedSoFar
  <2> QED BY <1>a, <1>c, <2>1, <2>3
<1>9. CASE WSave
  <2> DEFINE g == worker.group
  <2>1. /\ i \in Jobs /\ g \in Groups /\ worker.pc = "saving" /\ db' = db
        /\ outputDir' = [outputDir EXCEPT ![i] = TRUE]
        /\ models' = [models EXCEPT ![i] = @ \cup {g}]
    BY <1>9 DEF WSave, Typed
  <2>2. /\ outputDir'[i] /\ models'[i] = models[i] \cup {g}
        /\ \A j \in Jobs : outputDir[j] => outputDir'[j]
        /\ \A j \in Jobs : models[j] \subseteq models'[j]
    BY <1>0, <2>1
  <2>3. 1..(g - 1) \cup {g} = 1..g
    BY <2>1, GroupsAssumption DEF Groups
  <2>4. CASE MoreGroups
    <3>1. worker' = [worker EXCEPT !.pc = "fitting", !.group = g + 1] /\ g + 1 \in Groups
      BY <1>9, <2>1, <2>4, GroupsAssumption DEF WSave, MoreGroups, Groups
    <3>2. worker'.pc = "fitting" /\ worker'.job = i /\ worker'.group = g + 1
      BY <1>0, <3>1, WGroupFacts
    <3>3. TrainedSoFar(i) => outputDir'[i] /\ 1..((g + 1) - 1) \subseteq models'[i]
      <4>1. (g + 1) - 1 = g
        BY <2>1, GroupsAssumption DEF Groups
      <4> QED BY <2>1, <2>2, <2>3, <4>1 DEF TrainedSoFar
    <3>4. \A j \in Jobs : worker'.job = j =>
             TrainedSoFar(j)' \/ (worker.job = j /\ ~TrainedSoFar(j))
      BY <3>2, <3>3 DEF TrainedSoFar
    <3> QED BY <1>a, <2>1, <2>2, <3>4
  <2>5. CASE ~MoreGroups
    <3>1. WGoto("deciding") /\ g = NumGroups
      BY <1>9, <2>1, <2>5, GroupsAssumption DEF WSave, MoreGroups, Groups
    <3>2. worker'.pc = "deciding" /\ worker'.job = i
      BY <1>0, <3>1, WGotoFacts DEF WorkerPCs, TrainingPCs
    <3>3. TrainedSoFar(i) => outputDir'[i] /\ models'[i] = Groups
      BY <1>0, <2>1, <2>2, <2>3, <3>1 DEF TrainedSoFar, Groups
    <3>4. \A j \in Jobs : worker'.job = j =>
             TrainedSoFar(j)' \/ (worker.job = j /\ ~TrainedSoFar(j))
      BY <3>2, <3>3 DEF TrainedSoFar
    <3> QED BY <1>a, <2>1, <2>2, <3>4
  <2> QED BY <2>4, <2>5
<1> QED BY <1>3, <1>4, <1>5, <1>6, <1>7, <1>8, <1>9 DEF Worker

(* As long as nothing crashed, a completed job has the models of all its   *)
(* groups, unless a deletion is between its files and its row.             *)
THEOREM CompletedJobsHaveModels == Spec => []CompletedHasModels
<1> DEFINE Kept == crashes = 0 => ModelsKept
<1>1. Init => Kept
  BY IdleFacts, JobsAssumption
     DEF Init, ModelsKept, TrainedSoFar, NoRow
<1>2. Typed /\ IInv /\ Kept /\ [Next]_vars => Kept'
  <2> SUFFICES ASSUME Typed, IInv, Kept, [Next]_vars, crashes' = 0 PROVE ModelsKept'
    OBVIOUS
  <2>1. ModelsKept /\ ~Crash
    <3>1. crashes \in Nat
      BY MaxCrashesAssumption DEF Typed, TypeOK
    <3>2. ~Crash
      BY <3>1 DEF Crash
    <3>3. crashes' = crashes
      BY <3>2 DEF Next, Accept, Create, BatchDelete, Cancel, Delete, Handler, InsertRow,
         EnqueueJob, CancelQueued, CancelRunning, CancelFirst, AwaitStopped, AwaitTimeout,
         DequeueDeleted, RemoveFiles, DeleteRow, NextCandidate, Worker, WDequeue, WLoad,
         WStart, WPrepare, WFit, WSave, WTrainError, WDecide, WComplete, WCancel, WFail,
         Boot, process, service, vars
    <3> QED BY <3>2, <3>3
  <2>2. CASE UNCHANGED vars
    BY <2>1, <2>2 DEF vars, ModelsKept, TrainedSoFar, FilesGone, Exists
  <2>3. CASE Boot
    BY <2>1, <2>3 DEF Boot, storage, ModelsKept, TrainedSoFar, FilesGone, Exists
  <2>4. ASSUME NEW r \in Requests, Accept(r) PROVE ModelsKept'
    <3>1. \A j \in Jobs : ~FilesGone(j)
      BY <2>4 DEF FilesGone, Accept, Create, BatchDelete, Cancel, Delete, LoopFree
    <3>2. UNCHANGED <<db, models, worker>>
      BY <2>4 DEF Accept, Create, BatchDelete, Cancel, Delete, storage, process
    <3>3. \A j \in Jobs : outputDir[j] => outputDir'[j]
      BY <2>4 DEF Accept, Create, BatchDelete, Cancel, Delete, storage, Typed, TypeOK
    <3> QED BY <2>1, <3>1, <3>2, <3>3, RequestKeepsModels
  <2> QED
    BY <2>1, <2>2, <2>3, <2>4, HandlerKeepsModels, WorkerKeepsModels DEF Next
<1>3. Kept => CompletedHasModels
  BY DEF ModelsKept, FilesGone, CompletedHasModels
<1> QED BY <1>1, <1>2, <1>3, Invariant, PTL DEF Spec

-----------------------------------------------------------------------------
(* Deleting everything.                                                    *)

(* Every row is one the deletion of everything has before it, or has in    *)
(* hand.                                                                   *)
InHand(r, j) == Holds(req[r].todo, j) \/ (req[r].pc # "next" /\ req[r].job = j)

DeletingAll ==
    \A r \in Requests : req[r].scope = "all" =>
        /\ req[r].pc \in {"cancelFirst", "await", "dequeue", "removeFiles", "deleteRow", "next"}
        /\ ~req[r].skipped => \A j \in Jobs : Exists(db, j) => InHand(r, j)

(* If there are no more rows than a page has, the page has all of them.    *)
LEMMA WholePage ==
    ASSUME Cardinality(Jobs) <= BatchLimit, NEW S \in SUBSET Jobs, NEW s \in FirstPage(S)
    PROVE  s \in Seq(Jobs) /\ \A j \in S : Holds(s, j)
<1> DEFINE n == Cardinality(S)
<1>1. IsFiniteSet(S) /\ n \in Nat /\ Cardinality(Jobs) \in Nat /\ n <= Cardinality(Jobs)
  BY JobsAssumption, FS_Subset, FS_CardinalityType
<1>2. n < BatchLimit \/ n = BatchLimit
  BY <1>1, BatchLimitAssumption
<1>3. s \in Injection(1..n, S)
  BY <1>2 DEF FirstPage
<1>4. Cardinality(1..n) = n
  BY <1>1, FS_Interval
<1>5. s \in Surjection(1..n, S)
  BY <1>1, <1>3, <1>4, FS_Injection
<1>6. s \in Seq(Jobs)
  BY FirstPageFacts
<1>7. s \in [1..n -> Jobs]
  BY <1>3 DEF Injection
<1>8. Len(s) = n
  BY <1>1, <1>6, <1>7, LenProperties
<1> QED BY <1>5, <1>6, <1>8 DEF Surjection, Holds

(* Visiting keeps a listing in hand. *)
LEMMA VisitHolds ==
    ASSUME req \in [Requests -> RequestStates], NEW r \in Requests,
           NEW todo \in Seq(Jobs), todo # << >>,
           NEW scope \in Scopes, NEW skipped \in BOOLEAN,
           Visit(r, todo, scope, skipped), NEW j, Holds(todo, j)
    PROVE  InHand(r, j)'
<1>1. 1 \in 1..Len(todo)
  BY EmptySeq, LenProperties
<1>2. j = todo[1] \/ Holds(Drop(todo, 1), j)
  BY <1>1, DropFacts
<1>3. req'[r].todo = Drop(todo, 1) /\ req'[r].job = todo[1] /\ req'[r].pc # "next"
  BY DEF Visit
<1> QED BY <1>2, <1>3 DEF InHand

(* The requests that are not the one in step are idle, and delete nothing. *)
LEMMA DeletingAllAlone ==
    ASSUME Typed, IInv, DeletingAll, NEW r \in Requests, Accept(r) \/ Handler(r),
           \A q \in Requests : q # r => req'[q] = req[q],
           req'[r].scope = "all" =>
             /\ req'[r].pc \in
                  {"cancelFirst", "await", "dequeue", "removeFiles", "deleteRow", "next"}
             /\ ~req'[r].skipped => \A j \in Jobs : Exists(db', j) => InHand(r, j)'
    PROVE  DeletingAll'
<1>1. \A q \in Requests : q # r => req'[q].scope # "all"
  BY Alone DEF DeletingAll
<1>2. \A j \in Jobs : Exists(db, j)' <=> Exists(db', j)
  BY DEF Exists
<1> QED BY <1>1, <1>2 DEF DeletingAll

LEMMA DeletingAllStep ==
    ASSUME Cardinality(Jobs) <= BatchLimit, Typed, IInv, DeletingAll, [Next]_vars
    PROVE  DeletingAll'
<1>0. /\ req \in [Requests -> RequestStates] /\ db \in [Jobs -> Rows]
      /\ \A j \in Jobs : born' = born /\ Exists(db', j) => Exists(db, j)
      /\ IdleRequest.scope = "one" /\ "all" \in Scopes /\ "status" \in Scopes
  BY RowsOnlyInserted DEF Typed, TypeOK, IdleRequest, Scopes
<1>1. CASE UNCHANGED <<req, born>>
  <2>1. \A j \in Jobs : Exists(db, j)' => Exists(db, j)
    BY <1>0, <1>1 DEF Exists
  <2> QED BY <1>1, <2>1 DEF DeletingAll, InHand
<1>2. ASSUME NEW r \in Requests, Accept(r) PROVE DeletingAll'
  <2>1. ASSUME NEW job \in Jobs, NEW pc,
               req' = [req EXCEPT ![r] = [IdleRequest EXCEPT !.pc = pc, !.job = job]]
        PROVE  DeletingAll'
    <3>1. req'[r].scope = "one" /\ \A q \in Requests : q # r => req'[q] = req[q]
      BY <1>0, <2>1 DEF IdleRequest
    <3> QED BY <1>2, <3>1, DeletingAllAlone
  <2>2. ASSUME NEW todo, NEW skipped, NEW scope \in {"one", "status"},
               Visit(r, todo, scope, skipped)
        PROVE  DeletingAll'
    <3>1. req'[r].scope # "all" /\ \A q \in Requests : q # r => req'[q] = req[q]
      BY <1>0, <2>2 DEF Visit
    <3> QED BY <1>2, <3>1, DeletingAllAlone
  <2>3. CASE Create(r) \/ \E j \in Jobs : Cancel(r, j)
    BY <2>1, <2>3 DEF Create, Cancel
  <2>4. CASE \E j \in Jobs : Delete(r, j)
    BY <2>2, <2>4 DEF Delete
  <2>5. CASE BatchDelete(r)
    <3>1. CASE \E s \in Statuses : \E todo \in ByCreation(WithStatus(db, s)) :
                  todo # << >> /\ Visit(r, todo, "status", FALSE)
      BY <2>2, <3>1
    <3>2. ASSUME NEW todo \in FirstPage({j \in Jobs : Exists(db, j)}),
                 todo # << >>, Visit(r, todo, "all", FALSE)
          PROVE  DeletingAll'
      <4>1. todo \in Seq(Jobs) /\ \A j \in Jobs : Exists(db, j) => Holds(todo, j)
        BY WholePage
      <4>2. \A j \in Jobs : Exists(db, j) => InHand(r, j)'
        BY <1>0, <3>2, <4>1, VisitHolds
      <4>3. /\ req'[r].pc \in {"cancelFirst", "dequeue"}
            /\ \A q \in Requests : q # r => req'[q] = req[q]
        BY <1>0, <3>2, <4>1, VisitFacts
      <4>4. \A j \in Jobs : Exists(db', j) => Exists(db, j)
        BY <1>0, <2>5 DEF BatchDelete, storage
      <4> QED BY <1>2, <4>2, <4>3, <4>4, DeletingAllAlone
    <3> QED BY <2>5, <3>1, <3>2 DEF BatchDelete
  <2> QED BY <1>2, <2>3, <2>4, <2>5 DEF Accept
<1>3. ASSUME NEW r \in Requests, Handler(r) PROVE DeletingAll'
  <2> USE DEF At, storage, process
  <2>1. CASE InsertRow(r) \/ EnqueueJob(r) \/ CancelQueued(r) \/ CancelRunning(r)
    <3>1. req[r].scope # "all"
      BY <2>1 DEF InsertRow, EnqueueJob, CancelQueued, CancelRunning, DeletingAll
    <3>2. req'[r].scope # "all" /\ \A q \in Requests : q # r => req'[q] = req[q]
      BY <1>0, <2>1, <3>1
         DEF InsertRow, EnqueueJob, CancelQueued, CancelRunning, Goto, Answer, RequestStates
    <3> QED BY <1>3, <3>2, DeletingAllAlone
  <2>2. CASE CancelFirst(r) \/ DequeueDeleted(r) \/ RemoveFiles(r)
    <3>1. PICK pc \in {"await", "removeFiles", "deleteRow"} : Goto(r, pc)
      BY <2>2 DEF CancelFirst, DequeueDeleted, RemoveFiles
    <3>2. /\ req'[r] = [req[r] EXCEPT !.pc = pc] /\ req[r].pc # "next"
          /\ \A q \in Requests : q # r => req'[q] = req[q]
      BY <1>0, <2>2, <3>1 DEF Goto, CancelFirst, DequeueDeleted, RemoveFiles
    <3>3. \A j \in Jobs : Exists(db', j) => Exists(db, j)
      BY <1>0, <2>2 DEF CancelFirst, DequeueDeleted, RemoveFiles
    <3>4. /\ req'[r].scope = req[r].scope /\ req'[r].skipped = req[r].skipped
          /\ req'[r].todo = req[r].todo /\ req'[r].job = req[r].job /\ req'[r].pc = pc
      BY <1>0, <3>2 DEF RequestStates
    <3>5. \A j \in Jobs : InHand(r, j) => InHand(r, j)'
      BY <3>2, <3>4 DEF InHand
    <3>6. req[r].scope = "all" /\ ~req[r].skipped => \A j \in Jobs : Exists(db, j) => InHand(r, j)
      BY DEF DeletingAll
    <3> QED BY <1>3, <3>2, <3>3, <3>4, <3>5, <3>6, DeletingAllAlone
  <2>3. CASE AwaitStopped(r) \/ DeleteRow(r)
    <3>1. PICK pc \in {"dequeue", "next"} : Goto(r, pc)
      BY <2>3 DEF AwaitStopped, DeleteRow
    <3>2. \A q \in Requests : q # r => req'[q] = req[q]
      BY <1>0, <3>1 DEF Goto
    <3>3. \A j \in Jobs : Exists(db', j) => Exists(db, j)
      BY <1>0, <2>3 DEF AwaitStopped, DeleteRow
    <3>4. /\ req'[r].scope = req[r].scope /\ req'[r].skipped = req[r].skipped
          /\ req'[r].todo = req[r].todo /\ req'[r].job = req[r].job /\ req'[r].pc = pc
      BY <1>0, <3>1 DEF Goto, RequestStates
    <3>5. req[r].pc # "next"
      BY <2>3 DEF AwaitStopped, DeleteRow
    <3>6. pc = "next" /\ req[r].job \in Jobs => ~Exists(db', req[r].job)
      <4>1. CASE AwaitStopped(r)
        <5>1. ASSUME Exists(db, req[r].job) PROVE pc = "dequeue"
          <6>1. Goto(r, "dequeue")
            BY <4>1, <5>1 DEF AwaitStopped
          <6>2. req'[r].pc = "dequeue"
            BY <1>0, <6>1, GotoFacts DEF RequestPCs
          <6> QED BY <3>4, <6>2
        <5> QED BY <4>1, <5>1 DEF AwaitStopped
      <4>2. CASE DeleteRow(r)
        BY <1>0, <4>2, CreateFacts DEF DeleteRow
      <4> QED BY <2>3, <4>1, <4>2
    <3> QED
      BY <1>3, <3>2, <3>3, <3>4, <3>5, <3>6, DeletingAllAlone DEF DeletingAll, InHand
  <2>4. CASE AwaitTimeout(r)
    <3>1. req'[r].pc = "next" /\ req'[r].skipped /\ \A q \in Requests : q # r => req'[q] = req[q]
      BY <1>0, <2>4 DEF AwaitTimeout, RequestStates
    <3> QED BY <1>3, <3>1, DeletingAllAlone
  <2>5. CASE NextCandidate(r)
    <3>1. CASE req[r].todo = << >>
      <4>1. req'[r].scope = "one" /\ \A q \in Requests : q # r => req'[q] = req[q]
        BY <1>0, <2>5, <3>1 DEF NextCandidate, Answer
      <4> QED BY <1>3, <4>1, DeletingAllAlone
    <3>2. CASE req[r].todo # << >>
      <4>1. /\ req[r].todo \in Seq(Jobs) /\ req[r].scope \in Scopes
            /\ req[r].skipped \in BOOLEAN
        BY <1>0 DEF RequestStates
      <4>2. Visit(r, req[r].todo, req[r].scope, req[r].skipped) /\ req[r].pc = "next"
        BY <2>5, <3>2 DEF NextCandidate
      <4>3. \A j \in Jobs : Holds(req[r].todo, j) => InHand(r, j)'
        BY <1>0, <3>2, <4>1, <4>2, VisitHolds
      <4>4. /\ req'[r].pc \in {"cancelFirst", "dequeue"}
            /\ \A q \in Requests : q # r => req'[q] = req[q]
        BY <1>0, <3>2, <4>1, <4>2, VisitFacts
      <4>5. req'[r].scope = req[r].scope /\ req'[r].skipped = req[r].skipped
        BY <1>0, <4>2 DEF Visit
      <4>6. \A j \in Jobs : Exists(db', j) => Exists(db, j)
        BY <1>0, <2>5 DEF NextCandidate
      <4> QED
        BY <1>3, <4>2, <4>3, <4>4, <4>5, <4>6, DeletingAllAlone DEF DeletingAll, InHand
    <3> QED BY <3>1, <3>2
  <2> QED BY <1>3, <2>1, <2>2, <2>3, <2>4, <2>5 DEF Handler
<1>4. CASE Crash
  BY <1>0, <1>4 DEF Crash, DeletingAll
<1>5. CASE Worker \/ Boot \/ UNCHANGED vars
  <2>1. UNCHANGED <<req, born>>
    BY <1>5 DEF Worker, WDequeue, WLoad, WStart, WPrepare, WFit, WSave, WTrainError, WDecide,
       WComplete, WCancel, WFail, service, Boot, storage, vars
  <2> QED BY <1>1, <2>1
<1> QED BY <1>2, <1>3, <1>4, <1>5 DEF Next

(* If there are no more rows than list_jobs returns, a DELETE with         *)
(* all=true that skips no job leaves no row, whatever the worker does.     *)
THEOREM BatchesDeleteAll == Cardinality(Jobs) <= BatchLimit => (Spec => BatchDeletesAll)
<1> SUFFICES ASSUME Cardinality(Jobs) <= BatchLimit PROVE Spec => BatchDeletesAll
  OBVIOUS
<1>1. Init => DeletingAll
  BY DEF Init, DeletingAll, IdleRequest
<1>2. Typed /\ IInv /\ DeletingAll /\ [Next]_vars => DeletingAll'
  BY DeletingAllStep
<1> DEFINE Done ==
       \A r \in Requests :
          req[r].pc = "next" /\ req[r].scope = "all" /\ ~req[r].skipped
            /\ req'[r].pc = "idle" /\ up'
          => \A j \in Jobs : ~Exists(db', j)
<1>3. Typed /\ IInv /\ DeletingAll /\ [Next]_vars => [Done]_vars
  <2> SUFFICES ASSUME Typed, IInv, DeletingAll, Next, NEW r \in Requests,
                      req[r].pc = "next", req[r].scope = "all", ~req[r].skipped,
                      req'[r].pc = "idle", up',
                      NEW j \in Jobs
               PROVE  ~Exists(db', j)
    OBVIOUS
  <2>1. req' # req
    OBVIOUS
  <2>2. ~Worker /\ ~Boot /\ ~Crash
    BY <2>1 DEF Worker, WDequeue, WLoad, WStart, WPrepare, WFit, WSave, WTrainError, WDecide,
       WComplete, WCancel, WFail, service, Boot, storage, Crash
  <2>3. \A q \in Requests : ~Accept(q) /\ (q # r => ~Handler(q))
    BY Alone DEF Accept, Create, BatchDelete, Cancel, Delete, LoopFree
  <2>4. NextCandidate(r)
    BY <2>2, <2>3 DEF Next, Handler, At, InsertRow, EnqueueJob, CancelQueued, CancelRunning,
       CancelFirst, AwaitStopped, AwaitTimeout, DequeueDeleted, RemoveFiles, DeleteRow
  <2>5. req[r].todo = << >>
    <3> SUFFICES ASSUME req[r].todo # << >> PROVE FALSE
      OBVIOUS
    <3>1. /\ req \in [Requests -> RequestStates] /\ req[r].todo \in Seq(Jobs)
          /\ req[r].scope \in Scopes /\ req[r].skipped \in BOOLEAN
      BY DEF Typed, TypeOK, RequestStates
    <3>2. Visit(r, req[r].todo, req[r].scope, req[r].skipped)
      BY <2>4 DEF NextCandidate
    <3> QED BY <3>1, <3>2, VisitFacts
  <2>6. ~Holds(req[r].todo, j)
    BY <2>5 DEF Holds
  <2> QED BY <2>4, <2>6 DEF NextCandidate, DeletingAll, InHand
<1> QED BY <1>1, <1>2, <1>3, Invariant, PTL DEF Spec, BatchDeletesAll

-----------------------------------------------------------------------------
(* The order in which jobs are trained.                                    *)

(* A step that neither hands a job to the worker nor touches the queue     *)
(* puts nobody ahead.                                                      *)
LEMMA QueueKept ==
    ASSUME NEW i \in Jobs, NEW j \in Jobs, UNCHANGED queue,
           worker'.job \in {worker.job, NoJob}, Before(j, i)'
    PROVE  Before(j, i)
BY JobsAssumption DEF Before

(* The worker keeps its job until it is done with it.                      *)
LEMMA WorkerKeepsJob ==
    ASSUME Typed, Worker, ~WDequeue
    PROVE  worker' = IdleWorker \/ worker'.job = worker.job
<1>0. worker \in WorkerStates
  BY DEF Typed, TypeOK
<1>1. CASE WLoad \/ WStart \/ WPrepare \/ WFit
  BY <1>0, <1>1 DEF WLoad, WStart, WPrepare, WFit, WGoto, WorkerStates
<1>2. CASE WSave \/ WTrainError \/ WDecide
  BY <1>0, <1>2 DEF WSave, WTrainError, WDecide, WGoto, WorkerStates
<1>3. CASE WComplete \/ WCancel \/ WFail
  BY <1>3 DEF WComplete, WCancel, WFail
<1> QED BY <1>1, <1>2, <1>3 DEF Worker

(* Nobody gets ahead of a waiting job.                                     *)
LEMMA OrderStep ==
    ASSUME Typed, IInv, [Next]_vars, up, up', NEW i \in Jobs, NEW j \in Jobs,
           Holds(queue, i), Holds(queue', i), Before(j, i)'
    PROVE  Before(j, i)
<1>0. queue \in Seq(Jobs) /\ worker \in WorkerStates
  BY DEF Typed, TypeOK
<1>1. ASSUME NEW r \in Requests, EnqueueJob(r) PROVE Before(j, i)
  <2>1. /\ queue' = Enqueue(queue, req[r].job) /\ UNCHANGED worker
        /\ req[r].job \in Jobs /\ req[r].job # i
    BY <1>1 DEF EnqueueJob, At, process, Typed, IInv, SingleHolder
  <2> QED BY <1>0, <2>1, EnqueueOrder DEF Before
<1>2. ASSUME NEW r \in Requests, DequeueDeleted(r) PROVE Before(j, i)
  <2>1. queue' = Remove(queue, req[r].job) /\ UNCHANGED worker
    BY <1>2 DEF DequeueDeleted, process
  <2> QED BY <1>0, <2>1, RemoveOrder DEF Before
<1>3. CASE WDequeue
  <2>1. /\ queue' = Dequeue(queue) /\ worker'.job = Oldest(queue) /\ queue # << >>
        /\ 1 \in 1..Len(queue)
    BY <1>0, <1>3, EmptySeq, LenProperties DEF WDequeue, EmptyQueue
  <2>2. CASE worker'.job = j
    BY <1>0, <2>1, <2>2, OldestFirst DEF Before
  <2>3. CASE worker'.job # j
    BY <1>0, <2>1, <2>3, DropOrder DEF Before, Dequeue
  <2> QED BY <2>2, <2>3
<1>4. CASE Worker /\ ~WDequeue
  <2>1. UNCHANGED queue
    BY <1>4 DEF Worker, WLoad, WStart, WPrepare, WFit, WSave, WTrainError,
       WDecide, WComplete, WCancel, WFail
  <2>2. worker'.job \in {worker.job, NoJob}
    BY <1>4, WorkerKeepsJob, IdleFacts
  <2> QED BY <2>1, <2>2, QueueKept
<1>5. ASSUME NEW r \in Requests, Accept(r) \/ (Handler(r) /\ ~EnqueueJob(r) /\ ~DequeueDeleted(r))
      PROVE  Before(j, i)
  <2>1. UNCHANGED <<queue, worker>>
    BY <1>5 DEF Accept, Create, BatchDelete, Cancel, Delete, Handler, InsertRow,
       CancelQueued, CancelRunning, CancelFirst, AwaitStopped, AwaitTimeout, RemoveFiles,
       DeleteRow, NextCandidate, process
  <2> QED BY <2>1, QueueKept
<1>6. CASE UNCHANGED vars
  BY <1>6, QueueKept DEF vars
<1>7. ~Crash /\ ~Boot
  BY DEF Crash, Boot
<1> QED BY <1>1, <1>2, <1>3, <1>4, <1>5, <1>6, <1>7 DEF Next

(* Jobs are trained in the order in which they were queued.                *)
THEOREM ServedInOrderHolds == Spec => ServedInOrder
<1>1. Typed /\ IInv /\ [Next]_vars =>
        [up /\ up' => \A i, j \in Jobs :
          Holds(queue, i) /\ Holds(queue', i) /\ Before(j, i)' => Before(j, i)]_vars
  BY OrderStep
<1> QED BY <1>1, Invariant, PTL DEF Spec, ServedInOrder

-----------------------------------------------------------------------------
(* What is over is over.                                                   *)

(* The service is done with j: it is neither queued nor running, and       *)
(* nothing holds it that could make it so.                                 *)
LetGo(j) ==
    /\ born[j] # 0 /\ ~Live(j)
    /\ ~Holds(queue, j) /\ worker.job # j
    /\ \A r \in Requests : req[r].pc = "enqueue" => req[r].job # j

(* A job that is completed or failed is let go of.                         *)
LEMMA EndedLetGo ==
    ASSUME Typed, IInv, NEW j \in Jobs, db[j].status \in {"completed", "failed"}
    PROVE  LetGo(j)
BY DEF IInv, OnlyBorn, ClaimsUnfinished, LetGo, Live, Exists, Statuses

(* What a step does to the row of a job that is let go of.                 *)
LEMMA LetGoRow ==
    ASSUME Typed, IInv, [Next]_vars, NEW j \in Jobs, LetGo(j)
    PROVE  ~Live(j)'
<1>0. db \in [Jobs -> Rows] /\ born[j] # 0 /\ ~Live(j) /\ worker.job # j
  BY DEF Typed, TypeOK, LetGo
<1>a. ASSUME NEW i \in Jobs, Rewritten(db, i, db'),
             i = j /\ Exists(db, i) => \/ db'[i].status = "cancelled"
                                       \/ db'[i].status = db[i].status
      PROVE  ~Live(j)'
  BY <1>0, <1>a DEF Rewritten, Exists, Statuses, Live
<1>1. ASSUME NEW r \in Requests, Handler(r) PROVE ~Live(j)'
  <2> DEFINE i == req[r].job
  <2>0. i \in Jobs
    BY <1>1 DEF Typed, Handler, At, InsertRow, EnqueueJob, CancelQueued, CancelRunning,
       CancelFirst, AwaitStopped, AwaitTimeout, DequeueDeleted, RemoveFiles, DeleteRow,
       NextCandidate
  <2> HIDE DEF i
  <2>1. CASE db' = CreateJob(db, i) /\ born[i] = 0
    BY <1>0, <2>0, <2>1, CreateFacts DEF Live
  <2>2. CASE db' = MarkJobCancelled(db, i)
    <3>1. Exists(db, i) => db'[i] = [status |-> "cancelled", cancel |-> TRUE]
      BY <1>0, <2>0, <2>2, RowFacts
    <3> QED BY <1>0, <1>a, <2>0, <2>2, <3>1, StoreFacts
  <2>3. CASE db' = SetCancelRequested(db, i)
    <3>1. Exists(db, i) => db'[i] = [status |-> db[i].status, cancel |-> TRUE]
      BY <1>0, <2>0, <2>3, RowFacts
    <3> QED BY <1>0, <1>a, <2>0, <2>3, <3>1, StoreFacts
  <2>4. CASE db' = DeleteJobById(db, i)
    <3>1. /\ db'[i].status = "absent"
          /\ \A k \in Jobs : k # i => db'[k] = db[k]
      BY <1>0, <2>0, <2>4, CreateFacts DEF NoRow
    <3> QED BY <1>0, <3>1 DEF Live
  <2>5. CASE db' = db
    BY <1>0, <2>5 DEF Live
  <2> QED
    BY <1>1, <2>1, <2>2, <2>3, <2>4, <2>5
       DEF i, Handler, At, InsertRow, EnqueueJob, CancelQueued, CancelRunning,
       CancelFirst, AwaitStopped, AwaitTimeout, DequeueDeleted, RemoveFiles, DeleteRow,
       NextCandidate, IInv, OnlyBorn
<1>2. CASE Worker
  <2>1. CASE WStart \/ WComplete \/ WCancel \/ WFail
    <3>1. /\ worker.job \in Jobs
          /\ db' \in {UpdateJobStatus(db, worker.job, "running"), MarkJobCompleted(db, worker.job),
                      MarkJobCancelled(db, worker.job), MarkJobFailed(db, worker.job)}
      BY <2>1 DEF WStart, WComplete, WCancel, WFail, WAt, Typed
    <3>2. Rewritten(db, worker.job, db')
      BY <1>0, <3>1, StoreFacts
    <3> QED BY <1>0, <1>a, <3>1, <3>2
  <2>2. CASE db' = db
    BY <1>0, <2>2 DEF Live
  <2> QED
    BY <1>2, <2>1, <2>2 DEF Worker, WDequeue, WLoad, WPrepare, WFit, WSave, WTrainError, WDecide
<1>3. CASE db' = db
  BY <1>0, <1>3 DEF Live
<1> QED
  BY <1>1, <1>2, <1>3 DEF Next, Accept, Create, BatchDelete, Cancel, Delete, Crash, Boot,
     storage, vars

(* No step gives the worker a job that does not wait.                      *)
LEMMA LetGoWorker ==
    ASSUME Typed, IInv, [Next]_vars, NEW j \in Jobs, LetGo(j)
    PROVE  worker'.job # j
<1>0. queue \in Seq(Jobs) /\ worker.job # j /\ ~Holds(queue, j) /\ IdleWorker.job # j
  BY JobsAssumption, IdleFacts DEF Typed, TypeOK, LetGo
<1>1. CASE WDequeue
  <2>1. worker'.job = queue[1] /\ 1 \in 1..Len(queue)
    BY <1>0, <1>1, EmptySeq, LenProperties DEF WDequeue, EmptyQueue, Oldest
  <2> QED BY <1>0, <2>1 DEF Holds
<1>2. CASE Worker /\ ~WDequeue
  BY <1>0, <1>2, WorkerKeepsJob
<1>3. CASE worker' \in {worker, IdleWorker}
  BY <1>0, <1>3
<1> QED
  BY <1>1, <1>2, <1>3
     DEF Next, Accept, Create, BatchDelete, Cancel, Delete, Handler, InsertRow, EnqueueJob,
     CancelQueued, CancelRunning, CancelFirst, AwaitStopped, AwaitTimeout, DequeueDeleted,
     RemoveFiles, DeleteRow, NextCandidate, Crash, Boot, process, vars

(* No step queues a job that is let go of, nor prepares to.                *)
LEMMA LetGoQueue ==
    ASSUME Typed, IInv, [Next]_vars, NEW j \in Jobs, LetGo(j)
    PROVE  /\ ~Holds(queue', j)
           /\ \A r \in Requests : req'[r].pc = "enqueue" => req'[r].job # j
           /\ born'[j] # 0
<1>0. /\ queue \in Seq(Jobs) /\ req \in [Requests -> RequestStates]
      /\ ~Holds(queue, j) /\ ~Live(j) /\ born[j] # 0
      /\ born \in [Jobs -> Nat] /\ clock \in Nat /\ db \in [Jobs -> Rows]
      /\ \A r \in Requests : req[r].pc = "enqueue" => req[r].job # j
  BY DEF Typed, TypeOK, LetGo
<1> DEFINE Goal == /\ ~Holds(queue', j)
                   /\ \A r \in Requests : req'[r].pc = "enqueue" => req'[r].job # j
                   /\ born'[j] # 0
<1>e. ~Holds(<< >>, j)
  BY DEF Holds
<1>1. ASSUME NEW r \in Requests, Handler(r) PROVE Goal
  <2>0. /\ req[r].job \in Jobs
        /\ \A q \in Requests : q # r => req'[q] = req[q]
    <3>1. req[r].pc # "idle"
      BY <1>1 DEF Handler, At, InsertRow, EnqueueJob, CancelQueued, CancelRunning,
         CancelFirst, AwaitStopped, AwaitTimeout, DequeueDeleted, RemoveFiles, DeleteRow,
         NextCandidate
    <3> QED
      BY <1>0, <1>1, <3>1 DEF Typed, Handler, InsertRow, EnqueueJob, CancelQueued,
         CancelRunning, CancelFirst, AwaitStopped, AwaitTimeout, DequeueDeleted, RemoveFiles,
         DeleteRow, NextCandidate, Goto, Answer, Visit
  <2>1. CASE InsertRow(r)
    <3>1. req[r].job # j
      BY <1>0, <2>1 DEF InsertRow, At, IInv, OnlyBorn
    <3> QED BY <1>0, <2>0, <2>1, <3>1, GotoFacts DEF InsertRow, RequestPCs, process
  <2>2. CASE EnqueueJob(r)
    <3>1. ~Holds(queue', j)
      BY <1>0, <2>0, <2>2, EnqueueFacts DEF EnqueueJob, At
    <3>2. req'[r].pc = "idle" /\ born' = born
      BY <1>0, <2>2, AnswerFacts DEF EnqueueJob, storage
    <3> QED BY <1>0, <2>0, <3>1, <3>2
  <2>3. CASE DequeueDeleted(r)
    <3>1. ~Holds(queue', j)
      BY <1>0, <2>3, RemoveFacts DEF DequeueDeleted, IInv, SingleHolder
    <3> QED
      BY <1>0, <2>0, <2>3, <3>1, GotoFacts DEF DequeueDeleted, RequestPCs, storage
  <2>4. CASE \/ CancelQueued(r) \/ CancelRunning(r) \/ CancelFirst(r)
             \/ AwaitStopped(r) \/ AwaitTimeout(r) \/ RemoveFiles(r) \/ DeleteRow(r)
             \/ NextCandidate(r)
    <3>1. UNCHANGED <<queue, born>>
      BY <2>4 DEF CancelQueued, CancelRunning, CancelFirst, AwaitStopped, AwaitTimeout,
         RemoveFiles, DeleteRow, NextCandidate, storage
    <3>2. req'[r].pc # "enqueue"
      BY <1>0, <2>4 DEF CancelQueued, CancelRunning, CancelFirst, AwaitStopped, AwaitTimeout,
         RemoveFiles, DeleteRow, NextCandidate, Goto, Answer, Visit, IdleRequest, RequestStates
    <3> QED BY <1>0, <2>0, <3>1, <3>2
  <2> QED BY <1>1, <2>1, <2>2, <2>3, <2>4 DEF Handler
<1>2. ASSUME NEW r \in Requests, Accept(r) PROVE Goal
  <2>1. UNCHANGED <<queue, born>>
    BY <1>2 DEF Accept, Create, BatchDelete, Cancel, Delete, storage
  <2>2. /\ \A q \in Requests : q # r => req'[q] = req[q]
        /\ req'[r].pc # "enqueue"
    <3>1. CASE Create(r) \/ \E k \in Jobs : Cancel(r, k)
      BY <1>0, <3>1 DEF Create, Cancel, CancelStep, IdleRequest
    <3>2. CASE \E todo, scope : Visit(r, todo, scope, FALSE)
      BY <1>0, <3>2 DEF Visit
    <3> QED BY <1>2, <3>1, <3>2 DEF Accept, BatchDelete, Delete
  <2> QED BY <1>0, <2>1, <2>2
<1>3. CASE Worker
  <2>1. ~Holds(queue', j)
    <3>1. CASE WDequeue
      BY <1>0, <3>1, EmptySeq, LenProperties, DropFacts DEF WDequeue, EmptyQueue, Dequeue
    <3>2. CASE UNCHANGED queue
      BY <1>0, <3>2
    <3> QED
      BY <1>3, <3>1, <3>2 DEF Worker, WLoad, WStart, WPrepare, WFit, WSave, WTrainError,
         WDecide, WComplete, WCancel, WFail
  <2>2. UNCHANGED <<req, born>>
    BY <1>3 DEF Worker, WDequeue, WLoad, WStart, WPrepare, WFit, WSave, WTrainError,
       WDecide, WComplete, WCancel, WFail, service
  <2> QED BY <1>0, <2>1, <2>2
<1>4. CASE Crash
  BY <1>0, <1>4, <1>e, IdleFacts DEF Crash, EmptyQueue, storage
<1>5. CASE Boot
  <2>1. PICK waiting \in ByCreation(WithStatus(db, "queued")),
             interrupted \in ByCreation(WithStatus(db, "running")) :
                queue' = waiting \o interrupted
    BY <1>5 DEF Boot
  <2>2. /\ WithStatus(db, "queued") \in SUBSET Jobs /\ j \notin WithStatus(db, "queued")
        /\ WithStatus(db, "running") \in SUBSET Jobs /\ j \notin WithStatus(db, "running")
        /\ \A k : ~(k \in WithStatus(db, "queued") /\ k \in WithStatus(db, "running"))
    BY <1>0 DEF WithStatus, Live
  <2>3. /\ waiting \in Seq(Jobs) /\ Distinct(waiting)
        /\ \A k : Holds(waiting, k) <=> k \in WithStatus(db, "queued")
        /\ interrupted \in Seq(Jobs) /\ Distinct(interrupted)
        /\ \A k : Holds(interrupted, k) <=> k \in WithStatus(db, "running")
    BY <2>2, ListingFacts
  <2>4. ~Holds(queue', j)
    BY <2>1, <2>2, <2>3, JoinFacts
  <2> QED BY <1>0, <1>5, <2>4 DEF Boot, storage
<1>6. CASE UNCHANGED vars
  BY <1>0, <1>6 DEF vars
<1> QED BY <1>1, <1>2, <1>3, <1>4, <1>5, <1>6 DEF Next

(* Once a job is completed or failed it is over for good: it is never      *)
(* running again, and the worker never has it again, so that nothing       *)
(* writes to its models; whatever is cancelled, deleted, restarted later.  *)
THEOREM EndedForGood ==
    Spec => \A j \in Jobs :
              [](db[j].status \in {"completed", "failed"}
                   => [](db[j].status \notin {"queued", "running"} /\ worker.job # j))
<1> SUFFICES ASSUME NEW j \in Jobs
             PROVE  Spec => [](db[j].status \in {"completed", "failed"}
                      => [](db[j].status \notin {"queued", "running"} /\ worker.job # j))
  OBVIOUS
<1>1. Typed /\ IInv /\ db[j].status \in {"completed", "failed"} => LetGo(j)
  BY EndedLetGo
<1>2. Typed /\ IInv /\ LetGo(j) /\ [Next]_vars => LetGo(j)'
  BY LetGoRow, LetGoWorker, LetGoQueue DEF LetGo
<1>3. LetGo(j) => db[j].status \notin {"queued", "running"} /\ worker.job # j
  BY DEF LetGo, Live
<1> QED BY <1>1, <1>2, <1>3, Invariant, PTL DEF Spec

-----------------------------------------------------------------------------
(* Why requests are answered and jobs end: what is left to do shrinks.     *)

(* The steps a handler has still to take: at most six for each row of a    *)
(* batch.                                                                  *)
StepsFrom(pc) ==
    CASE pc = "cancelFirst" -> 6
      [] pc = "await" -> 5
      [] pc = "dequeue" -> 4
      [] pc = "removeFiles" -> 3
      [] pc \in {"deleteRow", "insert"} -> 2
      [] pc \in {"next", "enqueue", "markCancelled", "setFlag"} -> 1
      [] pc = "idle" -> 0

StepsLeft(r) == 6 * Len(req[r].todo) + StepsFrom(req[r].pc)

(* Every step of a busy handler leaves it less to do, and nobody else      *)
(* touches it: not the worker, not another request.                        *)
HandlersAdvance ==
    [][\A r \in Requests : req[r].pc # "idle" /\ up' =>
          IF Handler(r) THEN StepsLeft(r)' < StepsLeft(r) ELSE req'[r] = req[r]]_vars

(* The steps the worker has still to take with the job it has: two for     *)
(* each group, and a few around them.                                      *)
WorkLeft ==
    CASE worker.pc = "loading" -> 2 * NumGroups + 5
      [] worker.pc = "starting" -> 2 * NumGroups + 4
      [] worker.pc = "preparing" -> 2 * NumGroups + 3
      [] worker.pc = "fitting" -> 2 * (NumGroups - worker.group) + 4
      [] worker.pc = "saving" -> 2 * (NumGroups - worker.group) + 3
      [] worker.pc = "deciding" -> 2
      [] worker.pc \in {"completing", "cancelling", "failing"} -> 1
      [] worker.pc = "idle" -> 0

(* Every step of the worker with a job leaves it less to do with it, and   *)
(* no request gives it more or takes the job away.                         *)
WorkerAdvances ==
    [][worker.pc # "idle" /\ up' =>
          IF Worker THEN WorkLeft' < WorkLeft ELSE worker' = worker]_vars

(* The table, entry by entry.                                              *)
LEMMA StepsFromFacts ==
    /\ \A pc \in RequestPCs : StepsFrom(pc) \in Nat /\ (StepsFrom(pc) = 0 => pc = "idle")
    /\ StepsFrom("cancelFirst") = 6 /\ StepsFrom("await") = 5 /\ StepsFrom("dequeue") = 4
    /\ StepsFrom("removeFiles") = 3 /\ StepsFrom("deleteRow") = 2 /\ StepsFrom("insert") = 2
    /\ StepsFrom("next") = 1 /\ StepsFrom("enqueue") = 1 /\ StepsFrom("markCancelled") = 1
    /\ StepsFrom("setFlag") = 1 /\ StepsFrom("idle") = 0
BY DEF StepsFrom, RequestPCs

(* StepsLeft counts, and is used up when the handler has answered.         *)
LEMMA StepsLeftFacts ==
    ASSUME TypeOK, NEW r \in Requests
    PROVE  /\ StepsLeft(r) \in Nat
           /\ StepsLeft(r) = 0 => req[r].pc = "idle"
<1>1. Len(req[r].todo) \in Nat /\ req[r].pc \in RequestPCs
  BY LenProperties DEF TypeOK, RequestStates
<1> QED BY <1>1, StepsFromFacts DEF StepsLeft

(* Turning to the next row of a list takes it off the list.                *)
LEMMA VisitShrinks ==
    ASSUME TypeOK, NEW r \in Requests, NEW todo \in Seq(Jobs), todo # << >>,
           NEW scope, NEW skipped, Visit(r, todo, scope, skipped)
    PROVE  StepsLeft(r)' <= 6 * Len(todo)
<1>1. Len(todo) \in Nat /\ Len(todo) # 0
  BY EmptySeq, LenProperties
<1>2. Drop(todo, 1) \in Seq(Jobs) /\ Len(Drop(todo, 1)) = Len(todo) - 1
  BY <1>1, DropFacts, DropLength
<1>3. /\ req'[r].todo = Drop(todo, 1)
      /\ req'[r].pc \in {"cancelFirst", "dequeue"}
  BY DEF Visit, TypeOK
<1>4. StepsFrom(req'[r].pc) <= 6 /\ StepsFrom(req'[r].pc) \in Nat
  BY <1>3, StepsFromFacts
<1>5. StepsLeft(r)' = 6 * Len(req'[r].todo) + StepsFrom(req'[r].pc)
  BY DEF StepsLeft
<1> QED BY <1>1, <1>2, <1>3, <1>4, <1>5

(* A step of a handler takes one from what it has left.                    *)
LEMMA HandlerShrinks ==
    ASSUME Typed, NEW r \in Requests, Handler(r)
    PROVE  StepsLeft(r)' < StepsLeft(r)
<1>0. /\ req \in [Requests -> RequestStates] /\ TypeOK
      /\ req[r].todo \in Seq(Jobs) /\ Len(req[r].todo) \in Nat
  <2>1. req \in [Requests -> RequestStates] /\ TypeOK
    BY DEF Typed, TypeOK
  <2>2. req[r].todo \in Seq(Jobs)
    BY <2>1 DEF RequestStates
  <2> QED BY <2>1, <2>2, LenProperties
<1> USE DEF At
<1>a. ASSUME Answer(r) PROVE StepsLeft(r)' = 0
  <2>1. req'[r] = IdleRequest /\ Len(<< >>) = 0
    BY <1>0, <1>a, EmptySeq DEF Answer
  <2>2. StepsLeft(r)' = 6 * Len(req'[r].todo) + StepsFrom(req'[r].pc)
    BY DEF StepsLeft
  <2> QED BY <2>1, <2>2, StepsFromFacts DEF IdleRequest
<1>b. ASSUME NEW pc \in RequestPCs, Goto(r, pc), StepsFrom(pc) < StepsFrom(req[r].pc)
      PROVE  StepsLeft(r)' < StepsLeft(r)
  <2>1. req'[r].todo = req[r].todo /\ req'[r].pc = pc /\ req[r].pc \in RequestPCs
    BY <1>0, <1>b DEF Goto, RequestStates
  <2>2. StepsFrom(pc) \in Nat /\ StepsFrom(req[r].pc) \in Nat
    BY <2>1, StepsFromFacts
  <2>3. StepsLeft(r)' = 6 * Len(req[r].todo) + StepsFrom(pc)
    BY <2>1 DEF StepsLeft
  <2> QED BY <1>0, <1>b, <2>2, <2>3 DEF StepsLeft
<1>1. CASE EnqueueJob(r) \/ CancelQueued(r) \/ CancelRunning(r)
  <2>1. StepsFrom(req[r].pc) = 1 /\ Answer(r)
    BY <1>1, StepsFromFacts DEF EnqueueJob, CancelQueued, CancelRunning
  <2> QED BY <1>0, <1>a, <2>1 DEF StepsLeft
<1>2. CASE InsertRow(r)
  BY <1>2, <1>b, StepsFromFacts DEF InsertRow, RequestPCs
<1>3. CASE CancelFirst(r)
  BY <1>3, <1>b, StepsFromFacts DEF CancelFirst, RequestPCs
<1>4. CASE AwaitStopped(r)
  BY <1>4, <1>b, StepsFromFacts DEF AwaitStopped, RequestPCs
<1>5. CASE AwaitTimeout(r)
  <2>1. req'[r].todo = req[r].todo /\ req'[r].pc = "next"
    BY <1>0, <1>5 DEF AwaitTimeout, RequestStates
  <2>2. StepsFrom(req[r].pc) = 5 /\ StepsFrom("next") = 1
    BY <1>5, StepsFromFacts DEF AwaitTimeout
  <2> QED BY <1>0, <2>1, <2>2 DEF StepsLeft
<1>6. CASE DequeueDeleted(r)
  BY <1>6, <1>b, StepsFromFacts DEF DequeueDeleted, RequestPCs
<1>7. CASE RemoveFiles(r)
  BY <1>7, <1>b, StepsFromFacts DEF RemoveFiles, RequestPCs
<1>8. CASE DeleteRow(r)
  BY <1>8, <1>b, StepsFromFacts DEF DeleteRow, RequestPCs
<1>9. CASE NextCandidate(r)
  <2>1. StepsLeft(r) = 6 * Len(req[r].todo) + 1
    BY <1>9, StepsFromFacts DEF NextCandidate, StepsLeft
  <2>2. CASE req[r].todo = << >>
    BY <1>0, <1>9, <1>a, <2>1, <2>2 DEF NextCandidate
  <2>3. CASE req[r].todo # << >>
    <3>1. StepsLeft(r)' <= 6 * Len(req[r].todo)
      BY <1>0, <1>9, <2>3, VisitShrinks DEF NextCandidate
    <3>2. StepsLeft(r)' \in Nat
      <4>1. TypeOK'
        BY HandlerTyped DEF Typed
      <4>2. Len(req'[r].todo) \in Nat /\ req'[r].pc \in RequestPCs
        BY <4>1, LenProperties DEF TypeOK, RequestStates
      <4>3. StepsLeft(r)' = 6 * Len(req'[r].todo) + StepsFrom(req'[r].pc)
        BY DEF StepsLeft
      <4> QED BY <4>2, <4>3, StepsFromFacts
    <3> QED BY <1>0, <2>1, <3>1, <3>2
  <2> QED BY <2>2, <2>3
<1> QED BY <1>1, <1>2, <1>3, <1>4, <1>5, <1>6, <1>7, <1>8, <1>9 DEF Handler

(* Nobody but its own handler touches a busy request.                      *)
LEMMA OthersKeepRequest ==
    ASSUME Typed, IInv, [Next]_vars, NEW r \in Requests, req[r].pc # "idle", up', ~Handler(r)
    PROVE  req'[r] = req[r]
<1>1. ASSUME NEW q \in Requests, Accept(q) PROVE FALSE
  BY <1>1 DEF Accept, Create, BatchDelete, Cancel, Delete, LoopFree
<1>2. ASSUME NEW q \in Requests, Handler(q) PROVE FALSE
  BY <1>2, Alone
<1>3. CASE Worker
  BY <1>3 DEF Worker, WDequeue, WLoad, WStart, WPrepare, WFit, WSave, WTrainError,
     WDecide, WComplete, WCancel, WFail, service
<1>4. ~Crash
  BY DEF Crash
<1>5. CASE Boot
  BY <1>5 DEF Boot
<1>6. CASE UNCHANGED vars
  BY <1>6 DEF vars
<1> QED BY <1>1, <1>2, <1>3, <1>4, <1>5, <1>6 DEF Next

(* Every request is answered after a bounded number of steps of its own:   *)
(* six for each row of a batch, whatever the worker does meanwhile.        *)
THEOREM HandlersAdvanceHolds ==
    Spec => HandlersAdvance /\ [](\A r \in Requests : StepsLeft(r) \in Nat)
<1>1. Typed /\ IInv /\ [Next]_vars =>
        [\A r \in Requests : req[r].pc # "idle" /\ up' =>
          IF Handler(r) THEN StepsLeft(r)' < StepsLeft(r) ELSE req'[r] = req[r]]_vars
  BY HandlerShrinks, OthersKeepRequest
<1>2. Typed => \A r \in Requests : StepsLeft(r) \in Nat
  BY StepsLeftFacts DEF Typed
<1> QED BY <1>1, <1>2, Invariant, PTL DEF Spec, HandlersAdvance

(* A step of the worker takes one from what it has left.                   *)
LEMMA WorkerShrinks ==
    ASSUME Typed, IInv, Worker, worker.pc # "idle"
    PROVE  WorkLeft' < WorkLeft
<1>0. /\ worker \in WorkerStates /\ NumGroups \in Nat \ {0}
      /\ worker.pc \in {"fitting", "saving"} => worker.group \in 1..NumGroups
  BY GroupsAssumption DEF Typed, TypeOK, Groups
<1> USE <1>0 DEF WAt
<1>i. worker' = IdleWorker => WorkLeft' = 0
  BY DEF WorkLeft, IdleWorker
<1>g. ASSUME NEW pc \in WorkerPCs, WGoto(pc)
      PROVE  worker'.pc = pc /\ worker'.group = worker.group
  BY <1>g, WGotoFacts
<1>1. CASE WLoad
  <2>1. worker'.pc \in {"cancelling", "starting"} \/ worker' = IdleWorker
    BY <1>1, <1>g DEF WLoad, WorkerPCs
  <2>2. CASE worker' = IdleWorker
    <3>1. WorkLeft = 2 * NumGroups + 5
      BY <1>1 DEF WLoad, WorkLeft
    <3> QED BY <1>i, <2>2, <3>1
  <2>3. CASE worker'.pc \in {"cancelling", "starting"}
    BY <1>1, <2>3 DEF WLoad, WorkLeft
  <2> QED BY <2>1, <2>2, <2>3
<1>2. CASE WStart
  <2>1. worker'.pc \in {"preparing", "failing"}
    BY <1>2, <1>g DEF WStart, WorkerPCs, TrainingPCs
  <2> QED BY <1>2, <2>1 DEF WStart, WorkLeft
<1>3. CASE WPrepare
  <2>1. worker'.pc = "cancelling" \/ (worker'.pc = "fitting" /\ worker'.group = 1)
    BY <1>3, <1>g DEF WPrepare, WorkerPCs, WorkerStates
  <2> QED BY <1>3, <2>1 DEF WPrepare, WorkLeft
<1>4. CASE WFit
  <2>1. worker'.pc \in {"cancelling", "saving"} /\ worker'.group = worker.group
    BY <1>4, <1>g DEF WFit, WorkerPCs, TrainingPCs
  <2> QED BY <1>4, <2>1 DEF WFit, WorkLeft
<1>5. CASE WSave
  <2>1. \/ worker'.pc = "fitting" /\ worker'.group = worker.group + 1
        \/ worker'.pc = "deciding"
    BY <1>5, <1>g DEF WSave, WorkerPCs, TrainingPCs, WorkerStates
  <2> QED BY <1>5, <2>1 DEF WSave, WorkLeft
<1>6. CASE WTrainError
  <2>1. worker'.pc = "failing"
    BY <1>6, <1>g DEF WTrainError, WorkerPCs
  <2> QED BY <1>6, <2>1 DEF WTrainError, WorkLeft
<1>7. CASE WDecide
  <2>1. worker'.pc \in {"cancelling", "completing"}
    BY <1>7, <1>g DEF WDecide, WorkerPCs
  <2> QED BY <1>7, <2>1 DEF WDecide, WorkLeft
<1>8. CASE WComplete \/ WCancel \/ WFail
  <2>1. WorkLeft = 1 /\ worker' = IdleWorker
    BY <1>8 DEF WComplete, WCancel, WFail, WorkLeft
  <2> QED BY <1>i, <2>1
<1>9. ~WDequeue
  BY DEF WDequeue
<1> QED BY <1>1, <1>2, <1>3, <1>4, <1>5, <1>6, <1>7, <1>8, <1>9 DEF Worker

(* A job is done with after at most 2 * NumGroups + 5 steps of the worker, *)
(* and no request can make it more.                                        *)
THEOREM WorkerAdvancesHolds ==
    Spec => WorkerAdvances /\ [](WorkLeft \in 0..(2 * NumGroups + 5))
<1>1. ASSUME Typed, IInv, [Next]_vars, worker.pc # "idle", up', ~Worker
      PROVE  worker' = worker
  <2>1. ~Crash
    BY <1>1 DEF Crash
  <2>2. ~Boot
    BY <1>1, IdleFacts DEF Boot, IInv, DownIsEmpty
  <2> QED
    BY <1>1, <2>1, <2>2 DEF Next, Accept, Create, BatchDelete, Cancel, Delete, Handler,
       InsertRow, EnqueueJob, CancelQueued, CancelRunning, CancelFirst, AwaitStopped,
       AwaitTimeout, DequeueDeleted, RemoveFiles, DeleteRow, NextCandidate, process, vars
<1>2. Typed /\ IInv /\ [Next]_vars =>
        [worker.pc # "idle" /\ up' =>
          IF Worker THEN WorkLeft' < WorkLeft ELSE worker' = worker]_vars
  BY <1>1, WorkerShrinks
<1>3. Typed => WorkLeft \in 0..(2 * NumGroups + 5)
  <2> SUFFICES ASSUME Typed PROVE WorkLeft \in 0..(2 * NumGroups + 5)
    OBVIOUS
  <2>1. /\ worker.pc \in WorkerPCs /\ NumGroups \in Nat \ {0}
        /\ worker.pc \in {"fitting", "saving"} => worker.group \in 1..NumGroups
    BY GroupsAssumption DEF Typed, TypeOK, WorkerStates, Groups
  <2> QED BY <2>1 DEF WorkLeft, WorkerPCs, TrainingPCs
<1> QED BY <1>2, <1>3, Invariant, PTL DEF Spec, WorkerAdvances
=============================================================================
