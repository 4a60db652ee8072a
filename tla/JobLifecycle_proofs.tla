------------------------- MODULE JobLifecycle_proofs -------------------------
(***************************************************************************)
(* FinetuneService implements JobLifecycle, for every set of jobs and      *)
(* requests and any number of groups and crashes.                          *)
(***************************************************************************)
EXTENDS FinetuneService_proofs

(* What the invariant of the service has to add for the refinement: a row  *)
(* that is cancelled has its flag, and the worker has started the job for  *)
(* which it is past its start.                                             *)
Started ==
    worker.pc \notin {"idle", "loading", "starting"} => db[worker.job].status # "queued"

CancelledFlagged ==
    \A j \in Jobs :
        db[j].status = "cancelled" => db[j] = [status |-> "cancelled", cancel |-> TRUE]

(* The ways in which a step of the service writes rows. *)
Inserts(i) ==
    /\ born[i] = 0 /\ ~Exists(db, i)
    /\ db' = CreateJob(db, i)
    /\ born' = [born EXCEPT ![i] = clock + 1]

Writes(i) ==
    /\ born' = born
    /\ \/ db' = MarkJobCancelled(db, i)
       \/ db[i].status # "queued" /\ db' = SetCancelRequested(db, i)
       \/ db' = DeleteJobById(db, i)
       \/ /\ db[i].status \notin {"completed", "failed"}
          /\ db' = UpdateJobStatus(db, i, "running")
       \/ /\ db[i].status \notin {"completed", "failed", "queued"}
          /\ db' \in {MarkJobCompleted(db, i), MarkJobFailed(db, i)}

(* Every step writes at most one row, in one of these ways. *)
LEMMA RowMoves ==
    ASSUME Typed, IInv, Started, [Next]_vars
    PROVE  \/ UNCHANGED <<db, born>>
           \/ \E i \in Jobs : Inserts(i) \/ Writes(i)
<1>1. ASSUME NEW r \in Requests, Handler(r)
      PROVE  UNCHANGED <<db, born>> \/ \E i \in Jobs : Inserts(i) \/ Writes(i)
  <2>0. req[r].job \in Jobs
    BY <1>1 DEF Typed, Handler, At, InsertRow, EnqueueJob, CancelQueued, CancelRunning,
       CancelFirst, AwaitStopped, AwaitTimeout, DequeueDeleted, RemoveFiles, DeleteRow,
       NextCandidate
  <2>1. CASE InsertRow(r)
    BY <2>0, <2>1 DEF InsertRow, At, Inserts, IInv, OnlyBorn
  <2>2. CASE CancelQueued(r)
    BY <2>0, <2>2 DEF CancelQueued, storage, Writes
  <2>3. CASE CancelRunning(r) \/ CancelFirst(r)
    BY <2>0, <2>3 DEF CancelRunning, CancelFirst, At, storage, Writes, IInv, FlagsLeftQueue
  <2>4. CASE DeleteRow(r)
    BY <2>0, <2>4 DEF DeleteRow, storage, Writes
  <2>5. CASE \/ EnqueueJob(r) \/ AwaitStopped(r) \/ AwaitTimeout(r) \/ DequeueDeleted(r)
             \/ RemoveFiles(r) \/ NextCandidate(r)
    BY <2>5 DEF EnqueueJob, AwaitStopped, AwaitTimeout, DequeueDeleted, RemoveFiles,
       NextCandidate, storage
  <2> QED BY <1>1, <2>1, <2>2, <2>3, <2>4, <2>5 DEF Handler
<1>2. ASSUME Worker
      PROVE  UNCHANGED <<db, born>> \/ \E i \in Jobs : Inserts(i) \/ Writes(i)
  <2>1. CASE WStart
    <3>1. /\ worker.job \in Jobs /\ db[worker.job].status \notin {"completed", "failed"}
      BY <2>1 DEF WStart, WAt, Typed, IInv, ClaimsUnfinished
    <3> QED BY <2>1, <3>1 DEF WStart, service, Writes
  <2>2. CASE WComplete \/ WFail
    <3>1. /\ worker.job \in Jobs
          /\ db[worker.job].status \notin {"completed", "failed", "queued"}
      BY <2>2 DEF WComplete, WFail, WAt, Typed, IInv, ClaimsUnfinished, Started
    <3> QED BY <2>2, <3>1 DEF WComplete, WFail, service, Writes
  <2>3. CASE WCancel
    BY <2>3 DEF WCancel, WAt, Typed, service, Writes
  <2> QED
    BY <1>2, <2>1, <2>2, <2>3 DEF Worker, WDequeue, WLoad, WPrepare, WFit, WSave, WTrainError,
       WDecide, service
<1>3. CASE \/ \E r \in Requests : Accept(r)
           \/ Crash \/ Boot \/ UNCHANGED vars
  BY <1>3 DEF Accept, Create, BatchDelete, Cancel, Delete, Crash, Boot, storage, vars
<1> QED BY <1>1, <1>2, <1>3 DEF Next

(* What these writes make of a row that exists. *)
NewRow(i) ==
    \/ db'[i] = [status |-> "cancelled", cancel |-> TRUE]
    \/ /\ db[i].status # "queued"
       /\ db'[i] = [status |-> db[i].status, cancel |-> TRUE]
    \/ db'[i] = NoRow
    \/ /\ db[i].status \notin {"completed", "failed"}
       /\ db'[i] = [status |-> "running", cancel |-> db[i].cancel]
    \/ /\ db[i].status \notin {"completed", "failed", "queued"}
       /\ \E end \in {"completed", "failed"} :
            db'[i] = [status |-> end, cancel |-> db[i].cancel]

(* Each of these ways leaves the other rows alone, and this is what it     *)
(* makes of its own row.                                                   *)
LEMMA WritesFacts ==
    ASSUME Typed, NEW i \in Jobs, Writes(i)
    PROVE  /\ db' \in [Jobs -> Rows]
           /\ \A k \in Jobs : k # i => db'[k] = db[k]
           /\ ~Exists(db, i) => db' = db
           /\ Exists(db, i) => NewRow(i)
<1>0. db \in [Jobs -> Rows]
  BY DEF Typed, TypeOK
<1>1. CASE db' = DeleteJobById(db, i)
  <2>1. ~Exists(db, i) => db[i] = NoRow
    BY <1>0 DEF Exists, Rows
  <2>2. db' = [db EXCEPT ![i] = NoRow]
    BY <1>1 DEF DeleteJobById
  <2>3. ~Exists(db, i) => db' = db
    BY <1>0, <2>1, <2>2
  <2> QED BY <1>0, <1>1, <2>3, CreateFacts DEF NewRow
<1>2. CASE db' = MarkJobCancelled(db, i)
  <2>1. Rewritten(db, i, db')
    BY <1>0, <1>2, StoreFacts
  <2>2. Exists(db, i) => db'[i] = [status |-> "cancelled", cancel |-> TRUE]
    BY <1>0, <1>2, RowFacts
  <2> QED BY <2>1, <2>2 DEF Rewritten, NewRow
<1>3. CASE db[i].status # "queued" /\ db' = SetCancelRequested(db, i)
  <2>1. Rewritten(db, i, db')
    BY <1>0, <1>3, StoreFacts
  <2>2. Exists(db, i) => db'[i] = [status |-> db[i].status, cancel |-> TRUE]
    BY <1>0, <1>3, RowFacts
  <2> QED BY <1>3, <2>1, <2>2 DEF Rewritten, NewRow
<1>4. CASE /\ db[i].status \notin {"completed", "failed"}
           /\ db' = UpdateJobStatus(db, i, "running")
  <2>1. Rewritten(db, i, db')
    BY <1>0, <1>4, StoreFacts
  <2>2. Exists(db, i) => db'[i] = [status |-> "running", cancel |-> db[i].cancel]
    BY <1>0, <1>4, RowFacts
  <2> QED BY <1>4, <2>1, <2>2 DEF Rewritten, NewRow
<1>5. CASE /\ db[i].status \notin {"completed", "failed", "queued"}
           /\ db' \in {MarkJobCompleted(db, i), MarkJobFailed(db, i)}
  <2>1. Rewritten(db, i, db')
    BY <1>0, <1>5, StoreFacts
  <2>2. Exists(db, i) => \E end \in {"completed", "failed"} :
                            db'[i] = [status |-> end, cancel |-> db[i].cancel]
    <3>1. CASE db' = MarkJobCompleted(db, i)
      <4>1. Exists(db, i) => db'[i] = [status |-> "completed", cancel |-> db[i].cancel]
        BY <1>0, <3>1, RowFacts
      <4> QED BY <4>1
    <3>2. CASE db' = MarkJobFailed(db, i)
      <4>1. Exists(db, i) => db'[i] = [status |-> "failed", cancel |-> db[i].cancel]
        BY <1>0, <3>2, RowFacts
      <4> QED BY <4>1
    <3> QED BY <1>5, <3>1, <3>2
  <2> QED BY <1>5, <2>1, <2>2 DEF Rewritten, NewRow
<1> QED BY <1>1, <1>2, <1>3, <1>4, <1>5 DEF Writes

(* Inserting leaves the other rows alone, too. *)
LEMMA InsertsFacts ==
    ASSUME Typed, NEW i \in Jobs, Inserts(i)
    PROVE  /\ db' \in [Jobs -> Rows]
           /\ \A k \in Jobs : k # i => db'[k] = db[k] /\ born'[k] = born[k]
           /\ db'[i] = [status |-> "queued", cancel |-> FALSE]
           /\ born'[i] # 0
<1>1. db \in [Jobs -> Rows] /\ born \in [Jobs -> Nat] /\ clock \in Nat
  BY DEF Typed, TypeOK
<1> QED BY <1>1, CreateFacts DEF Inserts

-----------------------------------------------------------------------------
(* The added invariants. *)

LEMMA CancelledFlaggedStep ==
    ASSUME Typed, IInv, Started, CancelledFlagged, [Next]_vars
    PROVE  CancelledFlagged'
<1>1. CASE UNCHANGED <<db, born>>
  BY <1>1 DEF CancelledFlagged
<1>2. ASSUME NEW i \in Jobs, Inserts(i) PROVE CancelledFlagged'
  <2>1. db'[i].status = "queued"
    BY <1>2, InsertsFacts
  <2> QED BY <1>2, <2>1, InsertsFacts DEF CancelledFlagged
<1>3. ASSUME NEW i \in Jobs, Writes(i) PROVE CancelledFlagged'
  <2>1. CASE ~Exists(db, i)
    BY <1>3, <2>1, WritesFacts DEF CancelledFlagged
  <2>2. CASE Exists(db, i)
    <3>1. db'[i].status = "cancelled" => db'[i] = [status |-> "cancelled", cancel |-> TRUE]
      <4>1. NewRow(i)
        BY <1>3, <2>2, WritesFacts
      <4>3. CASE db'[i] = [status |-> db[i].status, cancel |-> TRUE]
        <5>1. db'[i].status = db[i].status
          BY <4>3
        <5> QED BY <4>3, <5>1, Zenon
      <4>4. CASE \E end \in {"running", "completed", "failed"} :
                    db'[i] = [status |-> end, cancel |-> db[i].cancel]
        BY <4>4
      <4>5. CASE db'[i] = NoRow
        BY <4>5 DEF NoRow
      <4> QED BY <4>1, <4>3, <4>4, <4>5 DEF NewRow
    <3> QED BY <1>3, <3>1, WritesFacts DEF CancelledFlagged
  <2> QED BY <2>1, <2>2
<1> QED BY <1>1, <1>2, <1>3, RowMoves

(* No step makes a row queued that had a row before. *)
LEMMA NotRequeued ==
    ASSUME Typed, IInv, Started, [Next]_vars, NEW j \in Jobs, born[j] # 0,
           db[j].status # "queued"
    PROVE  db'[j].status # "queued"
<1>1. ASSUME NEW i \in Jobs, Inserts(i) PROVE db'[j].status # "queued"
  BY <1>1, InsertsFacts DEF Inserts
<1>2. ASSUME NEW i \in Jobs, Writes(i) PROVE db'[j].status # "queued"
  <2>1. CASE i = j /\ Exists(db, i)
    <3>1. NewRow(j)
      BY <1>2, <2>1, WritesFacts
    <3> QED BY <3>1 DEF NewRow, NoRow
  <2> QED BY <1>2, <2>1, WritesFacts
<1> QED BY <1>1, <1>2, RowMoves

LEMMA StartedStep ==
    ASSUME Typed, IInv, Started, [Next]_vars
    PROVE  Started'
<1> USE DEF Started
<1>0. worker.job # NoJob => worker.job \in Jobs /\ born[worker.job] # 0
  BY DEF Typed, TypeOK, WorkerStates, IInv, OnlyBorn
<1>1. CASE UNCHANGED worker
  <2>1. worker.pc # "idle" => worker.job # NoJob
    BY DEF IInv, ClaimsUnfinished
  <2> QED BY <1>0, <1>1, <2>1, NotRequeued
<1>2. CASE worker' = IdleWorker
  BY <1>2 DEF IdleWorker
<1>3. CASE WDequeue
  BY <1>3 DEF WDequeue
<1>4. CASE WLoad
  <2>1. worker.job \in Jobs
    BY <1>4 DEF WLoad, WAt, Typed
  <2>2. worker \in WorkerStates /\ UNCHANGED db
    BY <1>4 DEF WLoad, Typed, TypeOK
  <2>3. db[worker.job].status = "queued" => ~db[worker.job].cancel
    BY <2>1 DEF IInv, QueuedNotFlagged
  <2> QED BY <1>4, <2>1, <2>2, <2>3 DEF WLoad, WGoto, WorkerStates, IdleWorker
<1>5. CASE WStart
  <2>1. worker.job \in Jobs /\ worker \in WorkerStates /\ db \in [Jobs -> Rows]
    BY <1>5 DEF WStart, WAt, Typed, TypeOK
  <2>2. db'[worker.job].status # "queued"
    <3>1. CASE Exists(db, worker.job)
      <4>1. db'[worker.job] = [status |-> "running", cancel |-> db[worker.job].cancel]
        BY <1>5, <2>1, <3>1, RowFacts DEF WStart
      <4> QED BY <4>1
    <3>2. CASE ~Exists(db, worker.job)
      BY <1>5, <2>1, <3>2, StoreFacts DEF WStart, Rewritten, Exists, Statuses
    <3> QED BY <3>1, <3>2
  <2>3. worker'.job = worker.job
    BY <1>5, <2>1 DEF WStart, WGoto, WorkerStates
  <2> QED BY <2>2, <2>3
<1>6. CASE \/ WPrepare \/ WFit \/ WSave \/ WTrainError \/ WDecide
  <2>1. /\ UNCHANGED db
        /\ worker.pc \notin {"idle", "loading", "starting"}
    BY <1>6 DEF WPrepare, WFit, WSave, WTrainError, WDecide, WAt
  <2>2. worker'.job = worker.job
    BY <1>6 DEF Typed, TypeOK, WorkerStates, WPrepare, WFit, WSave, WTrainError, WDecide, WGoto
  <2> QED BY <2>1, <2>2
<1> QED
  BY <1>1, <1>2, <1>3, <1>4, <1>5, <1>6
     DEF Next, Accept, Create, BatchDelete, Cancel, Delete, Handler, InsertRow, EnqueueJob,
     CancelQueued, CancelRunning, CancelFirst, AwaitStopped, AwaitTimeout, DequeueDeleted,
     RemoveFiles, DeleteRow, NextCandidate, Worker, WComplete, WCancel, WFail, Crash, Boot,
     process, vars

LEMMA LifecycleInvariant == Spec => [](Typed /\ IInv /\ Started /\ CancelledFlagged)
<1>1. Init => Started /\ CancelledFlagged
  BY DEF Init, Started, CancelledFlagged, IdleWorker, NoRow
<1>2. Typed /\ IInv /\ Started /\ CancelledFlagged /\ [Next]_vars
        => Started' /\ CancelledFlagged'
  BY StartedStep, CancelledFlaggedStep
<1> QED BY <1>1, <1>2, Invariant, PTL DEF Spec

-----------------------------------------------------------------------------
(* The step simulation. *)

shownBar == [j \in Jobs |-> Shown(j)]
askedBar == [j \in Jobs |-> db[j].cancel]

(* A step that changes one row changes what is shown of one job. *)
LEMMA OneRowShown ==
    ASSUME NEW i \in Jobs,
           \A k \in Jobs : k # i => db'[k] = db[k] /\ born'[k] = born[k]
    PROVE  /\ shownBar' = [shownBar EXCEPT ![i] = Shown(i)']
           /\ askedBar' = [askedBar EXCEPT ![i] = db'[i].cancel]
           /\ shownBar[i] = Shown(i) /\ askedBar[i] = db[i].cancel
<1>1. \A k \in Jobs : k # i => Shown(k)' = Shown(k)
  BY DEF Shown, Exists
<1> QED BY <1>1 DEF shownBar, askedBar

LEMMA InsertSimulates ==
    ASSUME Typed, NEW i \in Jobs, Inserts(i)
    PROVE  Lifecycle!Submit(i)
<1>1. Shown(i) = "none"
  BY DEF Inserts, Shown
<1>2. db'[i] = [status |-> "queued", cancel |-> FALSE]
  BY InsertsFacts
<1>3. Shown(i)' = "pending"
  BY <1>2 DEF Shown, Exists, Statuses
<1>4. db[i].cancel = FALSE
  BY DEF Typed, TypeOK, Inserts, Exists, Rows, NoRow
<1>5. \A k \in Jobs : db'[k].cancel = db[k].cancel
  <2>1. db'[i].cancel = FALSE
    BY <1>2
  <2>2. \A k \in Jobs : k # i => db'[k] = db[k]
    BY InsertsFacts
  <2> QED BY <1>4, <2>1, <2>2
<1>6. askedBar' = askedBar
  BY <1>5 DEF askedBar
<1>7. shownBar' = [shownBar EXCEPT ![i] = "pending"] /\ shownBar[i] = "none"
  BY <1>1, <1>3, InsertsFacts, OneRowShown
<1> QED
  BY <1>6, <1>7 DEF Lifecycle!Submit, Lifecycle!Show, shownBar, askedBar

LEMMA WriteSimulates ==
    ASSUME Typed, IInv, CancelledFlagged, NEW i \in Jobs, Writes(i)
    PROVE  Lifecycle!Next \/ UNCHANGED <<shownBar, askedBar>>
<1>0. /\ \A k \in Jobs : k # i => db'[k] = db[k] /\ born'[k] = born[k]
      /\ born' = born /\ db \in [Jobs -> Rows]
  BY WritesFacts DEF Writes, Typed, TypeOK
<1>1. CASE ~Exists(db, i)
  BY <1>0, <1>1, WritesFacts DEF shownBar, askedBar, Shown, Exists
<1> SUFFICES ASSUME Exists(db, i) PROVE Lifecycle!Next \/ UNCHANGED <<shownBar, askedBar>>
  BY <1>1
<1>2. /\ Shown(i) \in {"pending", "running", "cancelled", "completed", "failed"}
      /\ db[i].status = "queued" <=> Shown(i) = "pending"
      /\ db[i].status # "queued" => Shown(i) = db[i].status
      /\ Shown(i) = "cancelled" => db[i].cancel = TRUE
  BY DEF Shown, Exists, Statuses, CancelledFlagged, Typed, TypeOK, Rows, NoRow
<1>3. /\ shownBar' = [shownBar EXCEPT ![i] = Shown(i)']
      /\ askedBar' = [askedBar EXCEPT ![i] = db'[i].cancel]
      /\ shownBar[i] = Shown(i) /\ askedBar[i] = db[i].cancel
  BY <1>0, OneRowShown
<1> USE DEF Lifecycle!Show, Lifecycle!Present, Lifecycle!Ended
<1>4. CASE db'[i] = [status |-> "cancelled", cancel |-> TRUE]
  <2>1. Shown(i)' = "cancelled" /\ db'[i].cancel = TRUE
    BY <1>4 DEF Shown, Exists, Statuses
  <2> QED BY <1>2, <1>3, <2>1 DEF Lifecycle!Next, Lifecycle!Cancel, shownBar, askedBar
<1>5. CASE /\ db[i].status # "queued"
           /\ db'[i] = [status |-> db[i].status, cancel |-> TRUE]
  <2>1. Shown(i)' = Shown(i) /\ db'[i].cancel = TRUE
    BY <1>5 DEF Shown, Exists
  <2> QED BY <1>2, <1>3, <1>5, <2>1 DEF Lifecycle!Next, Lifecycle!Ask, shownBar, askedBar
<1>6. CASE db'[i] = NoRow
  <2>1. born[i] # 0
    BY DEF IInv, OnlyBorn
  <2>2. Shown(i)' = "gone" /\ db'[i].cancel = FALSE
    BY <1>0, <1>6, <2>1 DEF Shown, Exists, NoRow, Statuses
  <2> QED BY <1>2, <1>3, <2>2 DEF Lifecycle!Next, Lifecycle!Remove, shownBar, askedBar
<1>7. CASE /\ db[i].status \notin {"completed", "failed"}
           /\ db'[i] = [status |-> "running", cancel |-> db[i].cancel]
  <2>0. Shown(i)' = "running" /\ db'[i].cancel = db[i].cancel
    BY <1>7 DEF Shown, Exists, Statuses
  <2>1. Shown(i)' = "running" /\ askedBar' = askedBar
    BY <1>3, <2>0 DEF askedBar
  <2>2. Shown(i) \in {"pending", "running", "cancelled"}
    BY <1>2, <1>7
  <2>3. CASE Shown(i) = "running"
    BY <1>3, <2>1, <2>3 DEF shownBar
  <2> QED BY <1>2, <1>3, <2>1, <2>2, <2>3 DEF Lifecycle!Next, Lifecycle!Begin, shownBar, askedBar
<1>8. CASE /\ db[i].status \notin {"completed", "failed", "queued"}
           /\ \E end \in {"completed", "failed"} :
                db'[i] = [status |-> end, cancel |-> db[i].cancel]
  <2>0. Shown(i)' \in {"completed", "failed"} /\ db'[i].cancel = db[i].cancel
    BY <1>8 DEF Shown, Exists, Statuses
  <2>1. Shown(i)' \in {"completed", "failed"} /\ askedBar' = askedBar
    BY <1>3, <2>0 DEF askedBar
  <2>2. Shown(i) \in {"running", "cancelled"}
    BY <1>2, <1>8
  <2> QED BY <1>2, <1>3, <2>1, <2>2 DEF Lifecycle!Next, Lifecycle!Finish, shownBar, askedBar
<1> QED BY <1>4, <1>5, <1>6, <1>7, <1>8, WritesFacts DEF NewRow

(* Every step of the service is a step of the lifecycle, or leaves what is *)
(* shown as it is.                                                         *)
LEMMA StepSimulates ==
    ASSUME Typed, IInv, Started, CancelledFlagged, [Next]_vars
    PROVE  Lifecycle!Next \/ UNCHANGED <<shownBar, askedBar>>
<1>1. CASE UNCHANGED <<db, born>>
  BY <1>1 DEF shownBar, askedBar, Shown, Exists
<1>2. ASSUME NEW i \in Jobs, Inserts(i) PROVE Lifecycle!Next
  BY <1>2, InsertSimulates DEF Lifecycle!Next
<1>3. ASSUME NEW i \in Jobs, Writes(i)
      PROVE  Lifecycle!Next \/ UNCHANGED <<shownBar, askedBar>>
  BY <1>3, WriteSimulates
<1> QED BY <1>1, <1>2, <1>3, RowMoves

(* What clients are shown of their jobs follows JobLifecycle, through every *)
(* interleaving of handlers and worker, crash and restart.                  *)
THEOREM LifecycleImplemented == Spec => ImplementsLifecycle
<1>1. Init => Lifecycle!Init
  BY DEF Init, Lifecycle!Init, Shown, Exists, NoRow, Statuses
<1>2. Typed /\ IInv /\ Started /\ CancelledFlagged /\ [Next]_vars
        => [Lifecycle!Next]_(Lifecycle!lifecycleVars)
  BY StepSimulates DEF Lifecycle!lifecycleVars, shownBar, askedBar
<1> QED
  BY <1>1, <1>2, LifecycleInvariant, PTL DEF Spec, ImplementsLifecycle, Lifecycle!Spec
=============================================================================
