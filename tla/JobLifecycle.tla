---------------------------- MODULE JobLifecycle ----------------------------
(***************************************************************************)
(* What the service promises a client about the status of its jobs, as GET *)
(* /api/train_jobs/{id} shows it: no queue, no worker, no artifacts, no    *)
(* crash and no two requests that overlap.  FinetuneService implements it, *)
(* and so does TrainingRun, but for the failed calls of LastResort.        *)
(***************************************************************************)
CONSTANT Jobs

VARIABLES
    shown,        \* the status a client is shown; "none" before, "gone" after
    asked         \* was the job asked to stop

lifecycleVars == <<shown, asked>>

Ended == {"completed", "failed"}
Present == {"pending", "running", "cancelled"} \cup Ended

Init ==
    /\ shown = [j \in Jobs |-> "none"]
    /\ asked = [j \in Jobs |-> FALSE]

Show(j, status) == shown' = [shown EXCEPT ![j] = status]

Submit(j) ==
    /\ shown[j] = "none"
    /\ Show(j, "pending")
    /\ UNCHANGED asked

(* A job cancelled while it waited may start all the same, but only one    *)
(* that knows it is to stop.                                               *)
Begin(j) ==
    /\ \/ shown[j] = "pending"
       \/ shown[j] = "cancelled" /\ asked[j]
    /\ Show(j, "running")
    /\ UNCHANGED asked

(* The end of the training may overwrite a cancellation, never an end. *)
Finish(j) ==
    /\ \/ shown[j] = "running"
       \/ shown[j] = "cancelled" /\ asked[j]
    /\ \E end \in Ended : Show(j, end)
    /\ UNCHANGED asked

(* A waiting job is not asked to stop, it is cancelled. *)
Ask(j) ==
    /\ shown[j] \in Present \ {"pending"}
    /\ asked' = [asked EXCEPT ![j] = TRUE]
    /\ UNCHANGED shown

(* Written by a handler that read the job while it waited, it may turn a   *)
(* job that has completed or failed meanwhile into a cancelled one.        *)
Cancel(j) ==
    /\ shown[j] \in Present
    /\ Show(j, "cancelled")
    /\ asked' = [asked EXCEPT ![j] = TRUE]

Remove(j) ==
    /\ shown[j] \in Present
    /\ Show(j, "gone")
    /\ asked' = [asked EXCEPT ![j] = FALSE]

Next ==
    \E j \in Jobs :
        Submit(j) \/ Begin(j) \/ Finish(j) \/ Ask(j) \/ Cancel(j) \/ Remove(j)

Spec == Init /\ [][Next]_lifecycleVars
=============================================================================
