------------------------------ MODULE JobDetail ------------------------------
(***************************************************************************)
(* A client that polls a job while TrainingRun trains it: get_job_detail,  *)
(* behind GET /api/train_jobs/{id} and GET .../jobs/{id}, reads the row    *)
(* first and the loss points after it, in two queries; the worker commits  *)
(* between them.  The handler holds the event loop, so no other handler    *)
(* runs meanwhile.                                                         *)
(***************************************************************************)
EXTENDS TrainingRun

VARIABLE
    poll          \* the request, and what it has read: status and points

detailVars == <<runVars, poll>>

NoPoll == [pc |-> "closed", status |-> "none", points |-> {}]

(* map_status *)
Mapped(status) == IF status = "queued" THEN "pending" ELSE status

(* What a client is shown of the row; the job was submitted before.        *)
TheJob == {"job"}
Shown == [j \in TheJob |-> IF Exists THEN Mapped(row.status) ELSE "gone"]
Asked == [j \in TheJob |-> row.cancel]

Lifecycle == INSTANCE JobLifecycle WITH Jobs <- TheJob, shown <- Shown, asked <- Asked

DetailInit == Init /\ poll = NoPoll

Open == poll.pc = "row"

(* As if the curve were read before the row. *)
PollPointsFirst ==
    /\ \/ /\ poll.pc = "closed" /\ asking = "none" /\ Exists
          /\ poll' = [pc |-> "row", status |-> "none", points |-> points]
       \/ /\ Open
          /\ poll' = [poll EXCEPT !.pc = "shown", !.status = Mapped(row.status)]
       \/ poll.pc = "shown" /\ poll' = NoPoll
    /\ UNCHANGED runVars

(* Without a row the answer is 404.  What is shown is shown for a while. *)
Poll ==
    /\ \/ /\ poll.pc = "closed" /\ asking = "none" /\ Exists
          /\ poll' = [pc |-> "row", status |-> Mapped(row.status), points |-> {}]
       \/ /\ Open
          /\ poll' = [poll EXCEPT !.pc = "shown", !.points = points]
       \/ poll.pc = "shown" /\ poll' = NoPoll
    /\ UNCHANGED runVars

DetailNext ==
    \/ Poll
    \/ Worker /\ UNCHANGED poll
    \/ ~Open /\ Handler /\ UNCHANGED poll
    \/ Restart /\ poll' = NoPoll

DetailSpec == DetailInit /\ [][DetailNext]_detailVars /\ WF_detailVars(Worker /\ UNCHANGED poll)
-----------------------------------------------------------------------------

(* A client that is shown a completed job is shown a point for each loss   *)
(* its last run reported, but for as many as database calls failed,        *)
(* although status and curve come from two queries.                        *)
PolledWhole ==
    poll.pc = "shown" /\ poll.status = "completed" =>
        Cardinality(Missing(poll.points)) <= faults

(* What a client is shown beyond the lifecycle when database calls fail:   *)
(* the handler of last resort in _process_job writes "failed" for a job    *)
(* that never began, and over the "completed" it failed to read back.      *)
LastResort ==
    /\ faults > 0 /\ pc = "failing"
    /\ \E j \in TheJob :
          /\ Shown[j] \in {"pending", "completed"}
          /\ Shown' = [Shown EXCEPT ![j] = "failed"]
    /\ UNCHANGED Asked

(* Each step of the training, of the handlers and of a restart is one the  *)
(* lifecycle allows, one that no client sees or, after a failed call, the  *)
(* last resort; none returns a job to waiting, and none makes a completed  *)
(* one of a job that waits or has failed.                                  *)
FollowsLifecycle == [][Lifecycle!Next \/ LastResort]_(Lifecycle!lifecycleVars)
=============================================================================
