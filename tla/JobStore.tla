------------------------------ MODULE JobStore ------------------------------
(***************************************************************************)
(* The rows of table finetune_jobs as app/db/crud.py writes them.  Each    *)
(* operator is one committed transaction: it finds the row by id, changes  *)
(* some of its columns and commits.  On an id without a row every update   *)
(* returns None and writes nothing.  Only the columns on which the control *)
(* flow of the service depends are kept: status and cancel_requested.      *)
(***************************************************************************)

Statuses == {"queued", "running", "completed", "failed", "cancelled"}

(* The value standing for "no row has this id". *)
NoRow == [status |-> "absent", cancel |-> FALSE]

Rows == [status : Statuses, cancel : BOOLEAN] \cup {NoRow}

Exists(db, j) == db[j].status \in Statuses

(* get_job_by_id, then a commit of the changed columns if it found a row. *)
Update(db, j, row) == IF Exists(db, j) THEN [db EXCEPT ![j] = row] ELSE db

CreateJob(db, j) == [db EXCEPT ![j] = [status |-> "queued", cancel |-> FALSE]]

UpdateJobStatus(db, j, s) == Update(db, j, [status |-> s, cancel |-> db[j].cancel])

MarkJobCompleted(db, j) == UpdateJobStatus(db, j, "completed")

MarkJobFailed(db, j) == UpdateJobStatus(db, j, "failed")

SetCancelRequested(db, j) == Update(db, j, [status |-> db[j].status, cancel |-> TRUE])

(* As if only the status were written. *)
MarkCancelledOnly(db, j) == UpdateJobStatus(db, j, "cancelled")

(* The status is overwritten whatever it is by now. *)
MarkJobCancelled(db, j) == Update(db, j, [status |-> "cancelled", cancel |-> TRUE])

DeleteJobById(db, j) == [db EXCEPT ![j] = NoRow]

(* As if a selection returned every unfinished row. *)
Unfinished(db, s) == {j \in DOMAIN db : db[j].status \in {"queued", "running"}}

(* The rows the selections by status return. *)
WithStatus(db, s) == {j \in DOMAIN db : db[j].status = s}
=============================================================================
