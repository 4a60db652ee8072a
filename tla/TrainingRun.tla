---------------------------- MODULE TrainingRun ----------------------------
(***************************************************************************)
(* One fine-tuning job inside the worker: the steps of the trainer, the    *)
(* progress callback that writes them to the database, and the database    *)
(* session both share (callbacks/progress_callback.py, trainer_service.py, *)
(* trainer_worker.py, db/crud.py).  FinetuneService abstracts all of this  *)
(* to a few program points and knows no failing call; here the worker's    *)
(* database calls fail, each at its query, its commit or its refresh.      *)
(*                                                                         *)
(* External: the trainer calls on_step_end after each step, on_log after   *)
(* steps of its choice, and on_log once more, without a loss, at the end.  *)
(* A commit that fails leaves an SQLAlchemy session refusing everything    *)
(* until rollback(), which nothing in the program calls; close() is all    *)
(* that ends it.  A query that fails leaves it as it was.                  *)
(***************************************************************************)
EXTENDS Integers, FiniteSets

CONSTANTS
    NumGroups,    \* len(selected_groups)
    NumSteps,     \* num_steps of each group
    Curve,        \* the target of each group without its outer spaces
    Faulty,       \* the program points whose database calls may fail
    MaxFaults,    \* bound: calls that fail
    MaxRestarts   \* bound: process crashes

ASSUME RunAssumption ==
    /\ NumGroups \in Nat \ {0} /\ NumSteps \in Nat \ {0}
    /\ MaxFaults \in Nat /\ MaxRestarts \in Nat

VARIABLES
    row,          \* the job's row: status, cancel_requested, current_step
    points,       \* its rows in finetune_job_losses: <<group, step>>
    usable,       \* does the worker's session still accept statements
    pc,           \* the worker's program point
    group,        \* active_group_index + 1
    step,         \* the trainer's global_step in the group
    logged,       \* the points reported in this run of the job
    asking,       \* what a cancelling handler is about to write, from what it read
    faults, restarts

runVars == <<row, points, usable, pc, group, step, logged, asking, faults, restarts>>

Groups == 1..NumGroups
Steps == 1..NumSteps
Total == NumGroups * NumSteps

Statuses == {"queued", "running", "completed", "failed", "cancelled", "absent"}
PCs == {"loading", "starting", "preparing", "stepping", "reporting", "progress", "point",
        "saving", "deciding", "marking", "completing", "cancelling", "failing", "idle"}

Writes == {"none", "markCancelled", "setFlag"}

Exists == row.status # "absent"
counters == <<faults, restarts>>
trainer == <<group, step, logged>>

Init ==
    /\ row = [status |-> "queued", cancel |-> FALSE, current |-> 0]
    /\ points = {}
    /\ usable = TRUE
    /\ pc = "loading"
    /\ group = 0 /\ step = 0
    /\ logged = {}
    /\ asking = "none"
    /\ faults = 0 /\ restarts = 0

At(p) == pc = p
Goto(p) == pc' = p

(***************************************************************************)
(* The session.                                                            *)
(***************************************************************************)
Set(status) == [row EXCEPT !.status = status]
Cancelled == [row EXCEPT !.status = "cancelled", !.cancel = TRUE]

(* A committed write, or none if the row is gone. *)
Commit(r) ==
    /\ usable
    /\ row' = IF Exists THEN r ELSE row
    /\ UNCHANGED <<points, usable, faults>>

Fault ==
    /\ pc \in Faulty
    /\ faults < MaxFaults /\ faults' = faults + 1

(* A call of crud.py that raises: refused by the session; failing at its   *)
(* query, at its commit, which ends the session, or at the refresh after   *)
(* it, with the row written; or finding no row any more that was deleted   *)
(* since it was read.                                                      *)
Raise(r) ==
    /\ \/ ~usable /\ UNCHANGED <<row, usable, faults>>
       \/ usable /\ ~Exists /\ usable' \in BOOLEAN /\ UNCHANGED <<row, faults>>
       \/ /\ usable /\ Exists /\ Fault
          /\ \/ UNCHANGED <<row, usable>>
             \/ UNCHANGED row /\ usable' = FALSE
             \/ row' = r /\ UNCHANGED usable
    /\ UNCHANGED points

CancelSeen == usable /\ Exists /\ row.cancel

(* check_cancel_requested takes a failing query for no cancellation. *)
CheckCancel(onward) ==
    \/ CancelSeen /\ Goto("cancelling") /\ UNCHANGED faults
    \/ ~CancelSeen /\ Goto(onward) /\ UNCHANGED faults
    \/ CancelSeen /\ Fault /\ Goto(onward)

(***************************************************************************)
(* _process_job and train_chronos2.                                        *)
(***************************************************************************)
Load ==
    /\ At("loading")
    /\ \/ /\ UNCHANGED faults
          /\ \/ row.status \in {"absent", "cancelled"} /\ Goto("idle")
             \/ row.status \in {"queued", "running"} /\ row.cancel /\ Goto("marking")
             \/ row.status \in {"queued", "running"} /\ ~row.cancel /\ Goto("starting")
       \/ Fault /\ Goto("failing")
    /\ UNCHANGED <<row, points, usable, trainer, restarts>>

Start ==
    /\ At("starting")
    /\ \/ Commit(Set("running")) /\ Goto("preparing")
       \/ Raise(Set("running")) /\ Goto("failing")
    /\ UNCHANGED <<trainer, restarts>>

(* The data and the base model are loaded; on_group_start of group 1. *)
Prepare ==
    /\ At("preparing")
    /\ CheckCancel("stepping")
    /\ group' = 1 /\ step' = 0
    /\ UNCHANGED <<row, points, usable, logged, restarts>>

(* Bad data, a failed model load, fit or save. *)
TrainError ==
    /\ pc \in {"preparing", "stepping", "saving"}
    /\ Goto("failing")
    /\ UNCHANGED <<row, points, usable, trainer, counters>>

(* A step of the trainer and on_step_end; it may log the loss of the step. *)
TrainStep ==
    /\ At("stepping") /\ step < NumSteps
    /\ step' = step + 1
    /\ CheckCancel("stepping") \/ CheckCancel("reporting")
    /\ UNCHANGED <<row, points, usable, group, logged, restarts>>

(* on_trainer_log with a loss, up to the check in on_step_end. *)
Report ==
    /\ At("reporting")
    /\ logged' = logged \cup {<<group, step>>}
    /\ CheckCancel("progress")
    /\ UNCHANGED <<row, points, usable, group, step, restarts>>

(* As if every group counted its steps from zero. *)
BaseZero == 0

(* active_group_base_step *)
Base == (group - 1) * NumSteps

(* overall_step *)
Overall == IF Base + step < Total THEN Base + step ELSE Total

AtStep == [row EXCEPT !.current = Overall]

(* update_job_progress: on_step_end swallows its errors. *)
Progress ==
    /\ At("progress")
    /\ \/ Commit(AtStep) /\ Goto("point")
       \/ Raise(AtStep) /\ Goto("stepping")
    /\ UNCHANGED <<trainer, restarts>>

(* As if the curve of a group went on where the one before ended. *)
GroupStepOverall == Overall

(* The step of a loss point within its group. *)
GroupStep == IF Overall > Base THEN Overall - Base ELSE Overall

Namesakes(g) == {h \in Groups : Curve[h] = Curve[g]}

(* As if a point were found by its step alone. *)
UpsertByStep == {p \in points : p[2] # GroupStep} \cup {<<group, GroupStep>>}

(* A point is found by its target, stripped, and its step. *)
Upsert ==
    (points \ {<<h, GroupStep>> : h \in Namesakes(group)}) \cup {<<group, GroupStep>>}

(* upsert_job_loss_point, which fails as other calls do, and at its        *)
(* foreign key without the job's row; on_step_end swallows its errors.     *)
Point ==
    /\ At("point")
    /\ \/ ~usable /\ UNCHANGED <<points, usable, faults>>
       \/ usable /\ ~Exists /\ usable' \in BOOLEAN /\ UNCHANGED <<points, faults>>
       \/ usable /\ Exists /\ points' = Upsert /\ UNCHANGED <<usable, faults>>
       \/ /\ usable /\ Exists /\ Fault
          /\ \/ UNCHANGED <<points, usable>>
             \/ UNCHANGED points /\ usable' = FALSE
             \/ points' = Upsert /\ UNCHANGED usable
    /\ Goto("stepping")
    /\ UNCHANGED <<row, trainer, restarts>>

(* on_trainer_log without a loss: here an error ends the training. *)
Summary ==
    /\ At("stepping") /\ step = NumSteps
    /\ \/ Commit(AtStep) /\ Goto("saving")
       \/ Raise(AtStep) /\ Goto("failing")
    /\ UNCHANGED <<trainer, restarts>>

(* As if the last group were not known for the last. *)
SavePastLast ==
    /\ At("saving")
    /\ IF group > NumGroups
       THEN Goto("deciding") /\ UNCHANGED <<group, step, faults>>
       ELSE group' = group + 1 /\ step' = 0 /\ CheckCancel("stepping")
    /\ UNCHANGED <<row, points, usable, logged, restarts>>

(* The group is saved, and on_train_begin of the next one looks at the flag. *)
Save ==
    /\ At("saving")
    /\ IF group = NumGroups
       THEN Goto("deciding") /\ UNCHANGED <<group, step, faults>>
       ELSE group' = group + 1 /\ step' = 0 /\ CheckCancel("stepping")
    /\ UNCHANGED <<row, points, usable, logged, restarts>>

(* The worker reads the flag once more. *)
Decide ==
    /\ At("deciding")
    /\ \/ ~usable /\ Goto("failing") /\ UNCHANGED faults
       \/ usable /\ Fault /\ Goto("failing")
       \/ CancelSeen /\ Goto("marking") /\ UNCHANGED faults
       \/ usable /\ ~CancelSeen /\ Goto("completing") /\ UNCHANGED faults
    /\ UNCHANGED <<row, points, usable, trainer, restarts>>

(* mark_job_cancelled within the try of _process_job. *)
Mark ==
    /\ At("marking")
    /\ \/ Commit(Cancelled) /\ Goto("idle")
       \/ Raise(Cancelled) /\ Goto("failing")
    /\ UNCHANGED <<trainer, restarts>>

Complete ==
    /\ At("completing")
    /\ \/ Commit(Set("completed")) /\ Goto("idle")
       \/ Raise(Set("completed")) /\ Goto("failing")
    /\ UNCHANGED <<trainer, restarts>>

(* As if a cancelled job were left to the handler to mark. *)
CancelUnmarked ==
    /\ At("cancelling")
    /\ Goto("idle")
    /\ UNCHANGED <<row, points, usable, trainer, counters>>

(* The handler of CancelledError; an exception here, or in Fail, leaves    *)
(* _process_job.                                                           *)
Cancel ==
    /\ At("cancelling")
    /\ Commit(Cancelled) \/ Raise(Cancelled)
    /\ Goto("idle")
    /\ UNCHANGED <<trainer, restarts>>

(* As if the failure were recorded again and again until it is. *)
FailRetries ==
    /\ At("failing")
    /\ \/ Commit(Set("failed")) /\ Goto("idle")
       \/ Raise(Set("failed")) /\ Goto("failing")
    /\ UNCHANGED <<trainer, restarts>>

Fail ==
    /\ At("failing")
    /\ Commit(Set("failed")) \/ Raise(Set("failed"))
    /\ Goto("idle")
    /\ UNCHANGED <<trainer, restarts>>

Worker ==
    /\ \/ Load \/ Start \/ Prepare \/ TrainError \/ TrainStep \/ Report \/ Progress \/ Point
       \/ Summary \/ Save \/ Decide \/ Mark \/ Complete \/ Cancel \/ Fail
    /\ UNCHANGED asking

(***************************************************************************)
(* The handlers, one at a time, and the crash of the process with its      *)
(* restart.  The worker's steps fall between what a handler reads and what *)
(* it writes.                                                              *)
(***************************************************************************)
worker == <<usable, pc, trainer, counters>>

(* request_cancel_job reads the row; 404 and 409 change nothing. *)
RequestCancel ==
    /\ asking = "none"
    /\ \/ row.status = "queued" /\ asking' = "markCancelled"
       \/ row.status = "running" /\ asking' = "setFlag"
    /\ UNCHANGED <<row, points, worker>>

(* As if the flag were only for a job that is running. *)
MarkCancelledUnflagged ==
    /\ asking = "markCancelled" /\ asking' = "none"
    /\ row' = Set("cancelled")
    /\ UNCHANGED <<points, worker>>

(* What it writes lands on whatever the worker has made of the row. *)
MarkCancelled ==
    /\ asking = "markCancelled" /\ asking' = "none"
    /\ row' = Cancelled
    /\ UNCHANGED <<points, worker>>

SetFlag ==
    /\ asking = "setFlag" /\ asking' = "none"
    /\ row' = [row EXCEPT !.cancel = TRUE]
    /\ UNCHANGED <<points, worker>>

(* The loss points go with the row (ON DELETE CASCADE). *)
Delete ==
    /\ asking = "none" /\ Exists
    /\ row' = [status |-> "absent", cancel |-> FALSE, current |-> 0]
    /\ points' = {}
    /\ UNCHANGED <<asking, worker>>

(* requeue_pending_jobs finds the job if it is queued or running. *)
Restart ==
    /\ restarts < MaxRestarts
    /\ restarts' = restarts + 1
    /\ pc' = IF row.status \in {"queued", "running"} THEN "loading" ELSE "idle"
    /\ usable' = TRUE
    /\ group' = 0 /\ step' = 0 /\ logged' = {} /\ asking' = "none"
    /\ UNCHANGED <<row, points, faults>>

Handler == RequestCancel \/ MarkCancelled \/ SetFlag \/ Delete

Next == Worker \/ Handler \/ Restart

(* The worker thread is scheduled. *)
Spec == Init /\ [][Next]_runVars /\ WF_runVars(Worker)
-----------------------------------------------------------------------------

(* The state has the shape the code gives it. *)
TypeOK ==
    /\ row \in [status : Statuses, cancel : BOOLEAN, current : 0..Total]
    /\ points \subseteq Nat \X Nat
    /\ usable \in BOOLEAN
    /\ pc \in PCs
    /\ group \in 0..NumGroups /\ step \in 0..NumSteps
    /\ logged \subseteq Groups \X Steps
    /\ asking \in Writes
    /\ faults \in 0..MaxFaults /\ restarts \in 0..MaxRestarts

(* Deleting a job that is being trained leaves no loss points behind, and  *)
(* none are written afterwards.                                            *)
NoOrphanPoints == ~Exists => points = {}

(* A stored loss point is one of a job that exists, and one the trainer    *)
(* reported for that step of that group, or, after a restart, at least one *)
(* of a step of its group: the step is recovered from the overall one,     *)
(* through a cap and a fallback that could both misplace it (on_step_end,  *)
(* on_trainer_log).                                                        *)
PointsReported ==
    /\ NoOrphanPoints
    /\ points \subseteq IF restarts = 0 THEN logged ELSE Groups \X Steps

(* The reported losses for which the curve of their target has no point.   *)
Missing(stored) == {p \in logged : \A h \in Namesakes(p[1]) : <<h, p[2]>> \notin stored}

(* A completed job shows all its steps, and for each loss its last run     *)
(* reported its curve has a point of that target and step, but for as many *)
(* as database calls failed: on_step_end swallows the errors of its        *)
(* writes, and an error that made the session refuse all the points after  *)
(* it would go unnoticed if the job could still be completed.              *)
CompletedHasCurve ==
    row.status = "completed" => row.current = Total /\ Cardinality(Missing(points)) <= faults

(* The progress of a run never goes backwards; only a run started anew     *)
(* after a crash begins below what the one before had reached.             *)
ProgressForward ==
    [][restarts' = restarts /\ restarts = 0 /\ Exists /\ row'.status # "absent"
          => row'.current >= row.current]_runVars

(* The worker is done with the job in the end, whatever fails and whatever *)
(* the handlers do meanwhile.                                              *)
RunEnds == <>[](pc = "idle")

(* When the worker is done with a job its row says completed, failed or    *)
(* cancelled (backend-architecture.md, step 9).                            *)
EndRecorded == pc = "idle" => row.status \notin {"queued", "running"}

(* It does say so as long as no call failed, in whatever order a           *)
(* cancellation, a deletion and a restart come.                            *)
EndRecordedUnlessFaulty == faults = 0 => EndRecorded
=============================================================================
